---- MODULE Spec2Model ----
(***************************************************************************)
(* riprova: retry engine.  Model of riprova.Retrier (blocking) and         *)
(* riprova.AsyncRetrier (asyncio), of the backoff strategies they drive    *)
(* and of the default error whitelist they classify errors with.           *)
(*                                                                         *)
(* Two retrier objects exist, one per mode ("sync" is a Retrier, "async"   *)
(* an AsyncRetrier), each owning its own backoff instance.  The inputs of  *)
(* a run (what the operation, the evaluator, the error evaluator, on_retry *)
(* and sleep do on their k-th call of a run) are drawn when first needed   *)
(* and remembered in `tape`, so that two runs can be fed the same inputs.  *)
(***************************************************************************)
EXTENDS Integers, Sequences, FiniteSets, TLC

VARIABLES cfg, backoff, attempts, error, pc, start, res, delay, calls,
          errCause, outcome, trace, raises, runs, prev, now, tape,
          strategy, given, history, resets, whitelist, verdicts,
          heap, instances, last, classattr, retriers, ctx, shared, co

\* Classifier objects and their sets, the class attributes of the retrier
\* classes, the with-blocks and the overlapping runs.
extra == <<heap, instances, last, classattr, retriers, ctx, shared, co>>

\* The strategy and the classifier exercised on their own, outside a run.
pure == <<strategy, given, history, resets, whitelist, verdicts, extra>>

\* The state of the two retriers and of their inputs.
engine == <<cfg, backoff, attempts, error, pc, start, res, delay, calls,
            errCause, outcome, trace, raises, runs, prev, now, tape>>

vars == <<cfg, backoff, attempts, error, pc, start, res, delay, calls,
          errCause, outcome, trace, raises, runs, prev, now, tape, pure>>

\* ------------------------------------------------------------------ bounds
MaxRetries == 2
MaxCalls == 2
MaxRuns == 2
MaxClock == 4
MaxResets == 1
MaxJitterCalls == 3
MaxVerdicts == 2
MaxInstances == 2
MaxListOps == 3

\* --------------------------------------------------------------- constants
STOP == -1
None == "None"
Unset == "?"

Modes == {"sync", "async"}
Timeout == 1
Interval == 1
Args == {"a1"}

\* ------------------------------------------------------- error categories
\* Parent class of every exception class the model uses.
Parent ==
  [c \in {"BaseException", "Exception", "SystemExit", "CancelledError",
          "ValueError", "KeyError", "ImportError", "NotRetriableError",
          "FlaggedError", "RetryError", "MaxRetriesExceeded",
          "RetryTimeoutError", "RuntimeError", "TimeoutError",
          "EvalReturned", "EvalRaised", "CustomError", "EvaluatorError",
          "HookError", "SleepError", "KeyboardInterrupt", "IndexError",
          "SyntaxError", "ReferenceError", "TypeError",
          "ModuleNotFoundError", "FlaggedImportError", "NoRetryError"} |->
     CASE c = "BaseException" -> None
       [] c \in {"Exception", "SystemExit", "CancelledError",
                 "KeyboardInterrupt"} -> "BaseException"
       [] c \in {"FlaggedError", "NoRetryError"} -> "NotRetriableError"
       [] c \in {"ModuleNotFoundError", "FlaggedImportError"} -> "ImportError"
       [] c \in {"MaxRetriesExceeded", "RetryTimeoutError"} -> "RetryError"
       [] OTHER -> "Exception"]

RECURSIVE IsInstance(_, _)
IsInstance(e, c) ==
  IF e = None THEN FALSE
  ELSE IF e = c THEN TRUE
  ELSE IsInstance(Parent[e], c)

\* getattr(error, '__retry__', False): FlaggedError is a NotRetriableError
\* subclass declaring __retry__ = True, FlaggedImportError an ImportError
\* whose __retry__ was set to True.
RetryFlag(e) == e \in {"FlaggedError", "FlaggedImportError"}

WHITELIST == {"SystemExit", "IndexError", "ImportError", "SyntaxError",
              "ReferenceError", "KeyboardInterrupt", "NotRetriableError"}

\* Mutant: only the listed classes themselves match, not their subclasses.
isretry_ExactClass(list, e) ==
  ~ (/\ e # None
     /\ e \in list
     /\ RetryFlag(e) = FALSE)

isretry(list, e) ==
  ~ (/\ e # None
     /\ \E c \in list : IsInstance(e, c)
     /\ RetryFlag(e) = FALSE)

is_whitelisted_error(e) == isretry(WHITELIST, e)

\* ---------------------------------------------------------------- backoff
ConstantBackoff(interval, retries) ==
  [kind |-> "constant", retries |-> retries, pending_retries |-> retries,
   interval |-> interval, prev |-> 0, current |-> 0, initial |-> 0,
   multiplier |-> 0]

\* Mutant: reset() that forgets to restore the budget.
ConstantReset_Forgets(b) == b

ConstantReset(b) == [b EXCEPT !.pending_retries = b.retries]

\* Mutant: the budget check made one retry too early.
ConstantNext_OffByOne(b) ==
  IF b.retries > 0 /\ b.pending_retries <= 1 THEN <<STOP, b>>
  ELSE <<b.interval,
         IF b.retries > 0
         THEN [b EXCEPT !.pending_retries = b.pending_retries - 1]
         ELSE b>>

\* Mutant: the budget is spent without being looked at.
ConstantNext_Unchecked(b) ==
  <<b.interval,
    IF b.retries > 0
    THEN [b EXCEPT !.pending_retries = b.pending_retries - 1]
    ELSE b>>

\* <<value returned, backoff afterwards>>
ConstantNext(b) ==
  IF b.retries > 0 /\ b.pending_retries = 0 THEN <<STOP, b>>
  ELSE <<b.interval,
         IF b.retries > 0
         THEN [b EXCEPT !.pending_retries = b.pending_retries - 1]
         ELSE b>>

\* max_retries is kept in .retries of the record, the counter in
\* .pending_retries (it counts up for this strategy).
FibonacciBackoff(retries, initial, multiplier) ==
  [kind |-> "fibonacci", retries |-> retries, pending_retries |-> 0,
   interval |-> 0, prev |-> 0,
   current |-> IF initial = 0 THEN 1 ELSE initial,
   initial |-> IF initial = 0 THEN 1 ELSE initial,
   multiplier |-> multiplier]

FibonacciReset(b) ==
  [b EXCEPT !.prev = 0, !.pending_retries = 0, !.current = b.initial]

\* Mutant: the series does not remember its previous number.
FibonacciNext_Stale(b) ==
  IF b.retries > 0 /\ b.pending_retries >= b.retries THEN <<STOP, b>>
  ELSE LET c == b.prev + b.current
           n == IF b.retries > 0 THEN b.pending_retries + 1
                ELSE b.pending_retries
       IN <<c * b.multiplier,
            [b EXCEPT !.pending_retries = n, !.current = c]>>

FibonacciNext(b) ==
  IF b.retries > 0 /\ b.pending_retries >= b.retries THEN <<STOP, b>>
  ELSE LET c == b.prev + b.current
           n == IF b.retries > 0 THEN b.pending_retries + 1
                ELSE b.pending_retries
       IN <<c * b.multiplier,
            [b EXCEPT !.pending_retries = n, !.prev = b.current,
                      !.current = c]>>

BackoffReset(b) ==
  IF b.kind = "constant" THEN ConstantReset(b) ELSE FibonacciReset(b)

\* Mutant: next() hands out the delay without looking at the budget.
BackoffNext_Unlimited(b) == <<b.interval, b>>

BackoffNext(b) ==
  IF b.kind = "constant" THEN ConstantNext(b) ELSE FibonacciNext(b)

Backoffs ==
  {ConstantBackoff(Interval, r) : r \in 0..MaxRetries}
    \cup {FibonacciBackoff(MaxRetries, 1, 1)}


\* ------------------------------------------------------------ input domains
\* What one invocation of the operation does: return a value, return None,
\* or raise.
OpReturns == {"return v", "return None"}
OpRaises == {"ValueError", "KeyError", "ImportError", "SystemExit",
             "CancelledError"}
OpOutcomes == OpReturns \cup OpRaises
\* The value of a returning outcome.
Returned(o) == IF o = "return v" THEN "v" ELSE None

\* What the evaluator does with a result: return a falsy value, return an
\* exception object, return True, return another truthy value, or raise.
EvAnswers == {"Falsy", "Error", "True", "Truthy", "Raise"}

\* What a custom error_evaluator does with an error: return True, False,
\* a falsy value that is not False (None, 0), an exception object, or raise.
EEAnswers == {"True", "False", "Falsy", "Error", "Raise"}

\* on_retry and sleep either return or raise.
HookAnswers == {"ok", "raise"}

Slots == 1..MaxCalls
BlankTape ==
  [f \in {"op", "ev", "ee", "on_retry", "sleep"} |-> [k \in Slots |-> Unset]]

\* The k-th answer of input `f` is v: drawn now, or the one drawn before.
Draw(f, k, v) ==
  /\ tape[f][k] \in {Unset, v}
  /\ tape' = [tape EXCEPT ![f][k] = v]

\* ------------------------------------------------------------------ values
NoOutcome == [kind |-> "none", val |-> None, cause |-> None]
Return(v) == [kind |-> "return", val |-> v, cause |-> None]
Raise(e, c) == [kind |-> "raise", val |-> e, cause |-> c]

Event(ev, a, d) == [ev |-> ev, a |-> a, d |-> d]

NoPrev == [outcome |-> NoOutcome, attempts |-> 0, error |-> None,
           trace |-> <<>>, calls |-> 0]

\* -------------------------------------------------------------------- Init
Configs ==
  [timeout : {0, Timeout}, evaluator : BOOLEAN, error_evaluator : BOOLEAN,
   on_retry : BOOLEAN, args : Args, backoff : Backoffs,
   active : {{"sync"}, {"async"}}]

\* The result of the operation before any operation was made.
NoLast == [n |-> 0, op |-> "none", who |-> 0, args |-> <<>>, exc |-> None,
           sets |-> <<>>, registry |-> {}, rets |-> <<>>]

\* No classifier object, no class attribute assigned, no with-block and no
\* overlapping run.
ExtraIdle ==
  /\ heap = <<>>
  /\ instances = <<>>
  /\ last = NoLast
  /\ classattr = <<>>
  /\ retriers = <<>>
  /\ ctx = <<>>
  /\ shared = <<>>
  /\ co = <<>>

\* No strategy and no classifier is exercised on its own.
PureIdle ==
  /\ strategy = [kind |-> "none"]
  /\ given = [kind |-> "none"]
  /\ history = <<>>
  /\ resets = 0
  /\ whitelist = {}
  /\ verdicts = <<>>
  /\ ExtraIdle

\* A retrier as its constructor leaves it.
EngineInit(c) ==
  /\ cfg = c
  /\ backoff = [m \in Modes |-> c.backoff]
  /\ attempts = [m \in Modes |-> 0]
  /\ error = [m \in Modes |-> None]
  /\ pc = [m \in Modes |-> "idle"]
  /\ start = [m \in Modes |-> 0]
  /\ res = [m \in Modes |-> None]
  /\ delay = [m \in Modes |-> 0]
  /\ calls = [m \in Modes |-> 0]
  /\ errCause = [m \in Modes |-> None]
  /\ outcome = [m \in Modes |-> NoOutcome]
  /\ trace = [m \in Modes |-> <<>>]
  /\ raises = [m \in Modes |-> <<>>]
  /\ runs = [m \in Modes |-> 0]
  /\ prev = [m \in Modes |-> NoPrev]
  /\ now = 0
  /\ tape = BlankTape

InitWith(c) == EngineInit(c) /\ PureIdle

Init == \E c \in Configs : InitWith(c)

\* ------------------------------------------------------------------ engine
\* Mutant: a timeout check that never trips.
istimeout_Never(m) == FALSE

istimeout(m) ==
  IF cfg.timeout = 0 THEN FALSE
  ELSE now - start[m] > cfg.timeout /\ cfg.timeout > 0

\* The run ends: nothing else of the retrier changes.
Finish(m, o) ==
  /\ outcome' = [outcome EXCEPT ![m] = o]
  /\ pc' = [pc EXCEPT ![m] = "done"]

\* An engine failure is raised: remember its cause and the error field.
Raised(m, e, c) ==
  raises' = [raises EXCEPT
               ![m] = Append(@, [exc |-> e, cause |-> c, error |-> error[m]])]

\* run(): reset the state and the backoff, note the start time.
Restart(m) ==
  /\ m \in cfg.active
  /\ pc[m] \in {"idle", "done"}
  /\ runs[m] < MaxRuns
  /\ runs' = [runs EXCEPT ![m] = @ + 1]
  /\ prev' = [prev EXCEPT ![m] =
                [outcome |-> outcome[m], attempts |-> attempts[m],
                 error |-> error[m], trace |-> trace[m], calls |-> calls[m]]]
  /\ error' = [error EXCEPT ![m] = None]
  /\ attempts' = [attempts EXCEPT ![m] = 0]
  /\ backoff' = [backoff EXCEPT ![m] = BackoffReset(@)]
  /\ start' = [start EXCEPT ![m] = now]
  /\ pc' = [pc EXCEPT ![m] = IF m = "sync" THEN "check" ELSE "call"]
  /\ outcome' = [outcome EXCEPT ![m] = NoOutcome]
  /\ trace' = [trace EXCEPT ![m] = <<>>]
  /\ raises' = [raises EXCEPT ![m] = <<>>]
  /\ calls' = [calls EXCEPT ![m] = 0]
  /\ errCause' = [errCause EXCEPT ![m] = None]
  /\ UNCHANGED <<pure, cfg, res, delay, now>>

\* A run on the inputs as they are.
Run(m) == Restart(m) /\ UNCHANGED tape

\* Retrier.run, top of the loop: the timeout check.
CheckTimeout(m) ==
  /\ m = "sync"
  /\ pc[m] = "check"
  /\ IF istimeout(m)
     THEN /\ Finish(m, Raise("RetryTimeoutError", error[m]))
          /\ Raised(m, "RetryTimeoutError", error[m])
     ELSE /\ pc' = [pc EXCEPT ![m] = "call"]
          /\ UNCHANGED <<outcome, raises>>
  /\ UNCHANGED <<pure, cfg, backoff, attempts, error, start, res, delay, calls,
                 errCause, trace, runs, prev, now, tape>>


\* The arguments the operation is invoked with: run()'s *args, **kw.
CallArgs(m) == cfg.args

\* Mutant: the loop catches every exception, cancellations included.
Caught_Everything(m, e) == TRUE

\* Whether `except Exception` of the loop catches an exception raised inside
\* its try block.
Caught(m, e) == IsInstance(e, "Exception")

\* Mutant: the attempts counter is not incremented.
Incremented_Not(n) == n

\* `self.attempts += 1`
Incremented(n) == n + 1

\* _call: the operation is invoked.  On a result without evaluator (or a None
\* result) the run succeeds; with an evaluator the result goes to it; an
\* exception goes to _handle_error (which records it) when the loop catches
\* it, and leaves run() otherwise.
Invoke(m) ==
  /\ pc[m] = "call"
  /\ calls[m] < MaxCalls
  /\ LET k == calls[m] + 1 IN
     \E o \in OpOutcomes :
       /\ Draw("op", k, o)
       /\ calls' = [calls EXCEPT ![m] = k]
       /\ trace' = [trace EXCEPT ![m] = Append(@, Event("op", CallArgs(m), 0))]
       /\ IF o \in OpReturns
          THEN IF ~ cfg.evaluator \/ Returned(o) = None
               THEN /\ error' = [error EXCEPT ![m] = None]
                    /\ Finish(m, Return(Returned(o)))
                    /\ UNCHANGED <<res, errCause, attempts>>
               ELSE /\ res' = [res EXCEPT ![m] = Returned(o)]
                    /\ pc' = [pc EXCEPT ![m] = "eval"]
                    /\ UNCHANGED <<error, outcome, errCause, attempts>>
          ELSE IF Caught(m, o)
               THEN /\ error' = [error EXCEPT ![m] = o]
                    /\ errCause' = [errCause EXCEPT ![m] = None]
                    /\ pc' = [pc EXCEPT ![m] = "handle"]
                    /\ UNCHANGED <<res, outcome, attempts>>
               ELSE /\ Finish(m, Raise(o, None))
                    /\ attempts' =
                         [attempts EXCEPT
                            ![m] = IF m = "async" /\ o = "CancelledError"
                                   THEN Incremented(@) ELSE @]
                    /\ UNCHANGED <<res, error, errCause>>
  /\ UNCHANGED <<pure, cfg, backoff, start, delay, raises, runs, prev, now>>

\* The exception _call raises when the evaluator returns True, and its cause.
MisuseError(m) == IF m = "sync" THEN "RetryError" ELSE "RuntimeError"
MisuseCause(m) == IF m = "sync" THEN error[m] ELSE None

\* Mutant: an exception object returned by the evaluator is handed back as
\* the result, like any other truthy value.
EvBranch_ErrorReturned(a) ==
  CASE a = "Falsy" -> "success"
    [] a = "Raise" -> "raised"
    [] a = "True" -> "misuse"
    [] OTHER -> "returned"

\* _call: the branch taken for the evaluator's answer.
EvBranch(a) ==
  CASE a = "Falsy" -> "success"
    [] a = "Error" -> "raise"
    [] a = "Raise" -> "raised"
    [] a = "True" -> "misuse"
    [] OTHER -> "returned"

\* _call: the evaluator's answer for the result.
Evaluate(m) ==
  /\ pc[m] = "eval"
  /\ \E a \in EvAnswers :
       /\ Draw("ev", calls[m], a)
       /\ trace' = [trace EXCEPT ![m] = Append(@, Event("evaluator", res[m], 0))]
       /\ CASE EvBranch(a) = "success" ->
                 /\ error' = [error EXCEPT ![m] = None]
                 /\ Finish(m, Return(res[m]))
                 /\ UNCHANGED <<errCause, raises>>
            [] EvBranch(a) = "returned" ->
                 /\ Finish(m, Return("EvalValue"))
                 /\ UNCHANGED <<error, errCause, raises>>
            [] EvBranch(a) = "raise" ->
                 /\ error' = [error EXCEPT ![m] = "EvalReturned"]
                 /\ errCause' = [errCause EXCEPT ![m] = "RetryError"]
                 /\ pc' = [pc EXCEPT ![m] = "handle"]
                 /\ UNCHANGED <<outcome, raises>>
            [] EvBranch(a) = "raised" ->
                 /\ error' = [error EXCEPT ![m] = "EvalRaised"]
                 /\ errCause' = [errCause EXCEPT ![m] = None]
                 /\ pc' = [pc EXCEPT ![m] = "handle"]
                 /\ UNCHANGED <<outcome, raises>>
            [] EvBranch(a) = "misuse" ->
                 /\ Raised(m, MisuseError(m), MisuseCause(m))
                 /\ error' = [error EXCEPT ![m] = MisuseError(m)]
                 /\ errCause' = [errCause EXCEPT ![m] = MisuseCause(m)]
                 /\ pc' = [pc EXCEPT ![m] = "handle"]
                 /\ UNCHANGED outcome
  /\ UNCHANGED <<pure, cfg, backoff, attempts, start, res, delay, calls, runs, prev,
                 now>>

\* Mutant: an exception object returned by the error evaluator is not
\* raised; the original error is re-raised instead.
ErrorVerdict_NoReplace(a) ==
  CASE a = "Raise" -> "propagate"
    [] a \in {"Error", "False"} -> "reraise"
    [] OTHER -> "retry"

\* _handle_error: what the answer of the error evaluator leads to.
ErrorVerdict(a) ==
  CASE a = "Raise" -> "propagate"
    [] a = "Error" -> "replace"
    [] a = "False" -> "reraise"
    [] OTHER -> "retry"

\* The cause of MaxRetriesExceeded: self.error (Retrier) or err (AsyncRetrier),
\* the same exception in a single run.
MaxRetriesCause(m) == error[m]

\* Mutant: without an observer the loop goes back to the operation at once.
AfterDelay_NoSleep(m) ==
  IF cfg.on_retry
  THEN /\ pc' = [pc EXCEPT ![m] = "notify"]
       /\ UNCHANGED attempts
  ELSE /\ pc' = [pc EXCEPT ![m] = IF m = "sync" THEN "check" ELSE "call"]
       /\ attempts' = [attempts EXCEPT ![m] = Incremented(@)]

\* Where the loop goes once a delay was obtained.
AfterDelay(m) ==
  IF cfg.on_retry
  THEN /\ pc' = [pc EXCEPT ![m] = "notify"]
       /\ UNCHANGED attempts
  ELSE /\ pc' = [pc EXCEPT ![m] = "sleep"]
       /\ attempts' = [attempts EXCEPT
                         ![m] = IF m = "sync" THEN Incremented(@) ELSE @]

\* _handle_error (and, for Retrier, _get_delay): the error evaluator answers
\* for the recorded error; on a retry the backoff gives the next delay.
HandleError(m) ==
  /\ pc[m] = "handle"
  /\ \E a \in EEAnswers :
       /\ IF cfg.error_evaluator
          THEN Draw("ee", calls[m], a)
          ELSE /\ a = (IF is_whitelisted_error(error[m]) THEN "True" ELSE "False")
               /\ UNCHANGED tape
       /\ LET v == ErrorVerdict(a)
              n == BackoffNext(backoff[m])
              called == Append(trace[m], Event("error_evaluator", error[m], 0))
          IN
          CASE v = "propagate" ->
                 /\ Finish(m, Raise("EvaluatorError", None))
                 /\ trace' = [trace EXCEPT ![m] = called]
                 /\ UNCHANGED <<backoff, delay, raises, attempts>>
            [] v = "replace" ->
                 /\ Finish(m, Raise("CustomError", error[m]))
                 /\ trace' = [trace EXCEPT ![m] = called]
                 /\ UNCHANGED <<backoff, delay, raises, attempts>>
            [] v = "reraise" ->
                 /\ Finish(m, Raise(error[m], errCause[m]))
                 /\ trace' = [trace EXCEPT ![m] = called]
                 /\ UNCHANGED <<backoff, delay, raises, attempts>>
            [] v = "retry" ->
                 /\ backoff' = [backoff EXCEPT ![m] = n[2]]
                 /\ trace' = [trace EXCEPT
                                ![m] = Append(called, Event("next", None, n[1]))]
                 /\ IF n[1] = STOP
                    THEN /\ Finish(m, Raise("MaxRetriesExceeded",
                                            MaxRetriesCause(m)))
                         /\ Raised(m, "MaxRetriesExceeded", MaxRetriesCause(m))
                         /\ UNCHANGED <<delay, attempts>>
                    ELSE /\ delay' = [delay EXCEPT ![m] = n[1]]
                         /\ AfterDelay(m)
                         /\ UNCHANGED <<outcome, raises>>
  /\ UNCHANGED <<pure, cfg, error, start, res, calls, errCause, runs, prev, now>>

\* Mutant: an exception of on_retry is swallowed.
Propagates_Never(a) == FALSE

\* on_retry is called outside any try block: what it raises leaves run().
Propagates(a) == a = "raise"

\* _notify_subscriber / `await self.on_retry(err, delay)`.
Notify(m) ==
  /\ pc[m] = "notify"
  /\ \E a \in HookAnswers :
       /\ Draw("on_retry", calls[m], a)
       /\ trace' = [trace EXCEPT
                      ![m] = Append(@, Event("on_retry", error[m], delay[m]))]
       /\ IF Propagates(a)
          THEN /\ Finish(m, Raise("HookError", None))
               /\ UNCHANGED attempts
          ELSE /\ pc' = [pc EXCEPT ![m] = "sleep"]
               /\ attempts' = [attempts EXCEPT
                                 ![m] = IF m = "sync" THEN Incremented(@) ELSE @]
               /\ UNCHANGED outcome
  /\ UNCHANGED <<pure, cfg, backoff, error, start, res, delay, calls, errCause,
                 raises, runs, prev, now>>

\* `self.sleep(delay)` / `await self.sleep(delay)`.
Sleep(m) ==
  /\ pc[m] = "sleep"
  /\ \E a \in HookAnswers :
       /\ Draw("sleep", calls[m], a)
       /\ trace' = [trace EXCEPT ![m] = Append(@, Event("sleep", None, delay[m]))]
       /\ IF a = "raise"
          THEN /\ Finish(m, Raise("SleepError", None))
               /\ UNCHANGED attempts
          ELSE /\ pc' = [pc EXCEPT ![m] = IF m = "sync" THEN "check" ELSE "call"]
               /\ attempts' = [attempts EXCEPT
                                 ![m] = IF m = "async" THEN Incremented(@) ELSE @]
               /\ UNCHANGED outcome
  /\ UNCHANGED <<pure, cfg, backoff, error, start, res, delay, calls, errCause,
                 raises, runs, prev, now>>

\* asyncio.wait_for(self._run(...), self.timeout): the deadline fires while
\* the run is suspended; the cancellation is thrown into _run.
\* Mutant: the timeout 0 is handed to wait_for as it is.
DeadlineFire_Unguarded(m) ==
  /\ m = "async"
  /\ pc[m] \in {"call", "eval", "handle", "notify", "sleep"}
  /\ now - start[m] >= cfg.timeout
  /\ Finish(m, Raise("TimeoutError", "CancelledError"))
  /\ Raised(m, "TimeoutError", "CancelledError")
  /\ attempts' = [attempts EXCEPT
                    ![m] = IF pc[m] \in {"call", "eval"}
                           THEN Incremented(@) ELSE @]
  /\ UNCHANGED <<pure, cfg, backoff, error, start, res, delay, calls, errCause,
                 trace, runs, prev, now, tape>>

\* Mutant: the cancellation thrown in by the deadline is recorded as the
\* run's error.
DeadlineFire_Recorded(m) ==
  /\ m = "async"
  /\ cfg.timeout # 0
  /\ pc[m] \in {"call", "eval", "handle", "notify", "sleep"}
  /\ now - start[m] >= cfg.timeout
  /\ Finish(m, Raise("TimeoutError", "CancelledError"))
  /\ Raised(m, "TimeoutError", "CancelledError")
  /\ error' = [error EXCEPT ![m] = "CancelledError"]
  /\ attempts' = [attempts EXCEPT
                    ![m] = IF pc[m] \in {"call", "eval"}
                           THEN Incremented(@) ELSE @]
  /\ UNCHANGED <<pure, cfg, backoff, start, res, delay, calls, errCause,
                 trace, runs, prev, now, tape>>

\* `self.timeout = timeout or None`: without a timeout wait_for gets None and
\* sets no deadline.
DeadlineFire(m) ==
  /\ m = "async"
  /\ cfg.timeout # 0
  /\ pc[m] \in {"call", "eval", "handle", "notify", "sleep"}
  /\ now - start[m] >= cfg.timeout
  /\ Finish(m, Raise("TimeoutError", "CancelledError"))
  /\ Raised(m, "TimeoutError", "CancelledError")
  /\ attempts' = [attempts EXCEPT
                    ![m] = IF pc[m] \in {"call", "eval"}
                           THEN Incremented(@) ELSE @]
  /\ UNCHANGED <<pure, cfg, backoff, error, start, res, delay, calls, errCause,
                 trace, runs, prev, now, tape>>

\* time.time() advances while the operation runs or the run sleeps.  Only
\* runs with a timeout read the clock, and nothing reads it again once the
\* timeout is exceeded.
Tick ==
  /\ cfg.timeout # 0
  /\ \E m \in cfg.active : /\ pc[m] \in {"call", "sleep"}
                           /\ now - start[m] <= cfg.timeout
  /\ now' = now + 1
  /\ UNCHANGED <<pure, cfg, backoff, attempts, error, pc, start, res, delay, calls,
                 errCause, outcome, trace, raises, runs, prev, tape>>

\* The first run of a retrier.
RunOnce(m) == runs[m] = 0 /\ Run(m)

Next ==
  \/ \E m \in Modes : RunOnce(m)
  \/ \E m \in Modes : CheckTimeout(m)
  \/ \E m \in Modes : Invoke(m)
  \/ \E m \in Modes : Evaluate(m)
  \/ \E m \in Modes : HandleError(m)
  \/ \E m \in Modes : Notify(m)
  \/ \E m \in Modes : Sleep(m)
  \/ \E m \in Modes : DeadlineFire(m)
  \/ Tick

Spec == Init /\ [][Next]_vars


\* Blocking and async retrier side by side on the same inputs, no timeout,
\* one run each.
InitEquiv ==
  \E c \in Configs : /\ c.timeout = 0
                     /\ c.active = {"sync"}
                     /\ InitWith([c EXCEPT !.active = Modes])

NextEquiv ==
  \/ \E m \in Modes : RunOnce(m)
  \/ \E m \in Modes : CheckTimeout(m)
  \/ \E m \in Modes : Invoke(m)
  \/ \E m \in Modes : Evaluate(m)
  \/ \E m \in Modes : HandleError(m)
  \/ \E m \in Modes : Notify(m)
  \/ \E m \in Modes : Sleep(m)

SpecEquiv == InitEquiv /\ [][NextEquiv]_vars

\* One blocking Retrier, with the default classifier and no evaluator, run
\* several times in a row.
InitReuse ==
  \E c \in Configs : /\ c.active = {"sync"}
                     /\ ~ c.error_evaluator
                     /\ ~ c.evaluator
                     /\ InitWith(c)

NextReuse ==
  \/ \E m \in Modes : Run(m)
  \/ \E m \in Modes : CheckTimeout(m)
  \/ \E m \in Modes : Invoke(m)
  \/ \E m \in Modes : HandleError(m)
  \/ \E m \in Modes : Notify(m)
  \/ \E m \in Modes : Sleep(m)
  \/ Tick

SpecReuse == InitReuse /\ [][NextReuse]_vars

\* One run of a blocking Retrier without timeout whose backoff has a budget
\* of K retries, K + 1 invocations being within the inputs drawn.  The
\* retrier's thread keeps running: the operation, the hooks and sleep each
\* come back.
LiveBackoffs ==
  UNION {{ConstantBackoff(Interval, K), FibonacciBackoff(K, 1, 1)} :
           K \in 1..(MaxCalls - 1)}

InitLive ==
  \E c \in [timeout : {0}, evaluator : BOOLEAN, error_evaluator : BOOLEAN,
            on_retry : BOOLEAN, args : Args, backoff : LiveBackoffs,
            active : {{"sync"}}] : InitWith(c)

NextLive ==
  \/ \E m \in Modes : RunOnce(m)
  \/ \E m \in Modes : CheckTimeout(m)
  \/ \E m \in Modes : Invoke(m)
  \/ \E m \in Modes : Evaluate(m)
  \/ \E m \in Modes : HandleError(m)
  \/ \E m \in Modes : Notify(m)
  \/ \E m \in Modes : Sleep(m)

SpecLive == InitLive /\ [][NextLive]_vars /\ WF_vars(NextLive)

\* A blocking run that can go on for ever: unlimited budget, the default
\* classifier, no evaluator and no observer, and an operation that raises
\* ValueError every time.  This specification follows where the loop is and
\* what the clock says; the counters stop counting at the bound and no
\* trace is kept.
Saturating(n) == IF n < MaxCalls THEN n + 1 ELSE n

\* _call: the operation raises; `except Exception` catches it.
InvokeFailing(m) ==
  /\ pc[m] = "call"
  /\ calls' = [calls EXCEPT ![m] = Saturating(@)]
  /\ pc' = [pc EXCEPT ![m] = "handle"]
  /\ UNCHANGED <<pure, cfg, backoff, attempts, error, start, res, delay,
                 errCause, outcome, trace, raises, runs, prev, now, tape>>

\* _handle_error, _get_delay, `self.attempts += 1`: the error is recorded,
\* the classifier asked, the delay obtained and the retry counted.
HandleFailing(m) ==
  /\ pc[m] = "handle"
  /\ error' = [error EXCEPT ![m] = "ValueError"]
  /\ LET n == BackoffNext(backoff[m]) IN
     IF ~ is_whitelisted_error("ValueError")
     THEN /\ Finish(m, Raise("ValueError", None))
          /\ UNCHANGED <<backoff, delay, attempts>>
     ELSE IF n[1] = STOP
     THEN /\ Finish(m, Raise("MaxRetriesExceeded", "ValueError"))
          /\ UNCHANGED <<backoff, delay, attempts>>
     ELSE /\ backoff' = [backoff EXCEPT ![m] = n[2]]
          /\ delay' = [delay EXCEPT ![m] = n[1]]
          /\ attempts' = [attempts EXCEPT ![m] = Saturating(@)]
          /\ pc' = [pc EXCEPT ![m] = "sleep"]
          /\ UNCHANGED outcome
  /\ UNCHANGED <<pure, cfg, start, res, calls, errCause, trace, raises, runs,
                 prev, now, tape>>

\* `self.sleep(delay)` returns.
SleepReturns(m) ==
  /\ pc[m] = "sleep"
  /\ pc' = [pc EXCEPT ![m] = "check"]
  /\ UNCHANGED <<pure, cfg, backoff, attempts, error, start, res, delay,
                 calls, errCause, outcome, trace, raises, runs, prev, now,
                 tape>>

InitSpin ==
  \E c \in [timeout : 0..(Timeout + 1), evaluator : {FALSE},
            error_evaluator : {FALSE}, on_retry : {FALSE}, args : Args,
            backoff : {ConstantBackoff(i, 0) : i \in {0, Interval}},
            active : {{"sync"}}] : InitWith(c)

\* The steps of the retrier's thread.
Thread ==
  \/ \E m \in Modes : RunOnce(m)
  \/ \E m \in Modes : CheckTimeout(m)
  \/ \E m \in Modes : InvokeFailing(m)
  \/ \E m \in Modes : HandleFailing(m)
  \/ \E m \in Modes : SleepReturns(m)

NextSpin ==
  \/ Thread
  \/ Tick

\* The thread keeps running, and the clock keeps advancing while the
\* operation runs or the run sleeps.
SpecSpin ==
  InitSpin /\ [][NextSpin]_vars /\ WF_vars(Thread) /\ SF_vars(Tick)

\* The same inputs, but where the evaluator returned an exception object it
\* now raises it, and the other way round.
Mirror(t) ==
  [t EXCEPT !.ev = [k \in Slots |->
                      CASE t.ev[k] = "Error" -> "Raise"
                        [] t.ev[k] = "Raise" -> "Error"
                        [] OTHER -> t.ev[k]]]

\* A second run of the retrier, on the mirrored inputs.
RunMirrored(m) ==
  /\ runs[m] = 1
  /\ pc[m] = "done"
  /\ Restart(m)
  /\ tape' = Mirror(tape)

\* A retrier with an evaluator and no timeout, run on some inputs and then
\* on the mirrored ones.
InitMirror ==
  \E c \in Configs : /\ c.timeout = 0
                     /\ c.evaluator
                     /\ InitWith(c)

NextMirror ==
  \/ \E m \in Modes : RunOnce(m)
  \/ \E m \in Modes : RunMirrored(m)
  \/ \E m \in Modes : CheckTimeout(m)
  \/ \E m \in Modes : Invoke(m)
  \/ \E m \in Modes : Evaluate(m)
  \/ \E m \in Modes : HandleError(m)
  \/ \E m \in Modes : Notify(m)
  \/ \E m \in Modes : Sleep(m)

SpecMirror == InitMirror /\ [][NextMirror]_vars

\* time.time() advances, by any amount, while the operation runs or the run
\* sleeps, whether or not the retrier has a timeout.
Elapse ==
  /\ \E m \in cfg.active : pc[m] \in {"call", "sleep"}
  /\ now < MaxClock
  /\ now' = now + 1
  /\ UNCHANGED <<pure, cfg, backoff, attempts, error, pc, start, res, delay,
                 calls, errCause, outcome, trace, raises, runs, prev, tape>>

\* One run of a retrier with the default classifier, no evaluator and no
\* on_retry, with and without timeout, under a free-running clock.
InitClock ==
  \E c \in Configs : /\ ~ c.error_evaluator
                     /\ ~ c.evaluator
                     /\ ~ c.on_retry
                     /\ InitWith(c)

NextClock ==
  \/ \E m \in Modes : RunOnce(m)
  \/ \E m \in Modes : CheckTimeout(m)
  \/ \E m \in Modes : Invoke(m)
  \/ \E m \in Modes : HandleError(m)
  \/ \E m \in Modes : Sleep(m)
  \/ \E m \in Modes : DeadlineFire(m)
  \/ Elapse

SpecClock == InitClock /\ [][NextClock]_vars

\* ------------------------------------------- strategies on their own
\* Rational numbers <<numerator, denominator>>, denominator > 0, in lowest
\* terms: the values Python's float arithmetic computes exactly for the
\* dyadic parameters used here.
RECURSIVE GCD(_, _)
GCD(a, b) == IF b = 0 THEN a ELSE GCD(b, a % b)

Abs(n) == IF n < 0 THEN 0 - n ELSE n

Q(n, d) == LET g == GCD(Abs(n), d) IN <<n \div g, d \div g>>

QAdd(x, y) == Q(x[1] * y[2] + y[1] * x[2], x[2] * y[2])
QSub(x, y) == Q(x[1] * y[2] - y[1] * x[2], x[2] * y[2])
QMul(x, y) == Q(x[1] * y[1], x[2] * y[2])
\* x / y for y > 0
QDiv(x, y) == Q(x[1] * y[2], x[2] * y[1])
QLe(x, y) == x[1] * y[2] <= y[1] * x[2]
QLt(x, y) == x[1] * y[2] < y[1] * x[2]
QMin(x, y) == IF QLe(x, y) THEN x ELSE y
QMax(x, y) == IF QLe(x, y) THEN y ELSE x
\* int(x): truncation towards zero
QInt(x) == IF x[1] >= 0 THEN x[1] \div x[2] ELSE 0 - ((0 - x[1]) \div x[2])

\* A constructor whose assertions failed: no object exists.
AssertionError == [kind |-> "AssertionError"]

\* `assert retries >= 0`, `assert interval >= 0`
ConstantAssert(interval, retries) == retries >= 0 /\ interval >= 0

\* `assert retries >= 0`, `assert initial >= 0`, `assert multiplier >= 0`
FibonacciAssert(retries, initial, multiplier) ==
  retries >= 0 /\ initial >= 0 /\ multiplier >= 0

\* `assert interval >= 0`, `assert multiplier >= 0`; nothing is asserted of
\* factor, max_interval and max_elapsed.
ExponentialAssert(interval, factor, max_interval, max_elapsed, multiplier) ==
  interval >= 0 /\ QLe(<<0, 1>>, multiplier)

\* started = <<>> stands for None, <<t>> for the time t.
ExponentialBackOff(interval, factor, max_interval, max_elapsed, multiplier) ==
  [kind |-> "exponential", started |-> <<>>, multiplier |-> multiplier,
   max_elapsed |-> max_elapsed, max_interval |-> max_interval,
   factor |-> QMin(QMax(factor, <<0, 1>>), <<1, 1>>),
   interval |-> interval, current_interval |-> <<interval, 1>>]

ExponentialReset(b) ==
  [b EXCEPT !.started = <<>>, !.current_interval = <<b.interval, 1>>]

\* _get_random_value, for the value rand that random.random() returned.
GetRandomValue(b, rand) ==
  LET delta == QMul(b.factor, rand)
      min_interval == QSub(b.current_interval, delta)
      max_interval == QAdd(b.current_interval, delta)
  IN QInt(QAdd(min_interval,
               QMul(rand, QAdd(QSub(max_interval, min_interval), <<1, 1>>))))

\* _increment_interval, for a multiplier other than 0.
IncrementInterval(b) ==
  IF QLe(QDiv(<<b.max_interval, 1>>, b.multiplier), b.current_interval)
  THEN [b EXCEPT !.current_interval = <<b.max_interval, 1>>]
  ELSE [b EXCEPT !.current_interval = QMul(b.current_interval, b.multiplier)]

\* Mutant: the elapsed time is never looked at.
Expired_Never(b, t) == FALSE

\* Mutant: a max_elapsed of 0 is a limit like any other.
Expired_ZeroIsLimit(b, t) == t - b.started[1] > b.max_elapsed

\* `self.max_elapsed != 0 and self.elapsed > self.max_elapsed` at time t
Expired(b, t) == b.max_elapsed # 0 /\ t - b.started[1] > b.max_elapsed

\* ExponentialBackOff.next at time t with random value rand:
\* <<exception, value returned, backoff afterwards>>
ExponentialNext(b, t, rand) ==
  LET s == IF b.started = <<>> THEN [b EXCEPT !.started = <<t>>] ELSE b
  IN IF Expired(s, t) THEN <<None, STOP, s>>
     ELSE IF b.multiplier[1] = 0 THEN <<"ZeroDivisionError", 0, s>>
     ELSE <<None, GetRandomValue(s, rand), IncrementInterval(s)>>

\* The values random.random() returns, in [0, 1).
Rands == {<<0, 1>>, <<7, 8>>}

\* next() of the strategy under test: <<exception, value, strategy>>
StrategyNextOf(b, t, rand) ==
  IF b.kind = "exponential" THEN ExponentialNext(b, t, rand)
  ELSE <<None, BackoffNext(b)[1], BackoffNext(b)[2]>>

StrategyResetOf(b) ==
  IF b.kind = "exponential" THEN ExponentialReset(b) ELSE BackoffReset(b)

\* How many next() calls are made between two resets.
MaxNext(b) ==
  IF b.kind = "exponential" THEN MaxJitterCalls ELSE MaxRetries + 3

\* A call of strategy.next(); only ExponentialBackOff draws a random value.
StrategyNext ==
  /\ strategy.kind \in {"constant", "fibonacci", "exponential"}
  /\ Len(history) < MaxNext(strategy)
  /\ \E rand \in Rands :
       /\ strategy.kind # "exponential" => rand = <<0, 1>>
       /\ LET n == StrategyNextOf(strategy, now, rand)
          IN /\ strategy' = n[3]
             /\ history' = Append(history,
                                  [exc |-> n[1], ret |-> n[2], at |-> now,
                                   before |-> strategy, after |-> n[3]])
  /\ UNCHANGED <<cfg, backoff, attempts, error, pc, start, res, delay, calls,
                 errCause, outcome, trace, raises, runs, prev, now, tape,
                 given, resets, whitelist, verdicts, extra>>

\* A call of strategy.reset(); the history starts again.
StrategyReset ==
  /\ strategy.kind \in {"constant", "fibonacci", "exponential"}
  /\ resets < MaxResets
  /\ history # <<>>
  /\ strategy' = StrategyResetOf(strategy)
  /\ history' = <<>>
  /\ resets' = resets + 1
  /\ UNCHANGED <<cfg, backoff, attempts, error, pc, start, res, delay, calls,
                 errCause, outcome, trace, raises, runs, prev, now, tape,
                 given, whitelist, verdicts, extra>>

\* now() advances between the calls; only ExponentialBackOff reads it.
Advance ==
  /\ strategy.kind = "exponential"
  /\ now < MaxClock
  /\ now' = now + 1
  /\ UNCHANGED <<cfg, backoff, attempts, error, pc, start, res, delay, calls,
                 errCause, outcome, trace, raises, runs, prev, tape, pure>>

\* A retrier that is never run.
EngineIdle ==
  EngineInit([timeout |-> 0, evaluator |-> FALSE, error_evaluator |-> FALSE,
              on_retry |-> FALSE, args |-> "a1",
              backoff |-> ConstantBackoff(Interval, 0), active |-> {}])

\* The constructor arguments tried, negative ones included.
Intervals == {-1, 0, Interval, Interval + 2}
Budgets == {-1} \cup (0..(MaxRetries + 2))
Initials == {-1, 0, 1, 2}
Multipliers == {-1, 0, 1, 3}
Factors == {<<-1, 1>>, <<1, 2>>, <<2, 1>>}
MaxIntervals == {-2, 2, 4}
MaxElapseds == {-1, 0, 1}
ExpMultipliers == {<<-1, 1>>, <<0, 1>>, <<1, 2>>, <<3, 2>>, <<2, 1>>}

InitConstant ==
  \E i \in Intervals, r \in Budgets :
    /\ given = [kind |-> "constant", interval |-> <<i, 1>>,
                retries |-> <<r, 1>>]
    /\ strategy = IF ConstantAssert(i, r) THEN ConstantBackoff(i, r)
                  ELSE AssertionError

InitFibonacci ==
  \E r \in Budgets, a \in Initials, m \in Multipliers :
    /\ given = [kind |-> "fibonacci", retries |-> <<r, 1>>,
                initial |-> <<a, 1>>, multiplier |-> <<m, 1>>]
    /\ strategy = IF FibonacciAssert(r, a, m) THEN FibonacciBackoff(r, a, m)
                  ELSE AssertionError

InitExponential ==
  \E i \in Intervals, f \in Factors, mi \in MaxIntervals, me \in MaxElapseds,
     m \in ExpMultipliers :
    /\ given = [kind |-> "exponential", interval |-> <<i, 1>>, factor |-> f,
                max_interval |-> <<mi, 1>>, max_elapsed |-> <<me, 1>>,
                multiplier |-> m]
    /\ strategy = IF ExponentialAssert(i, f, mi, me, m)
                  THEN ExponentialBackOff(i, f, mi, me, m)
                  ELSE AssertionError

InitBackoff ==
  /\ EngineIdle
  /\ history = <<>>
  /\ resets = 0
  /\ whitelist = {}
  /\ verdicts = <<>>
  /\ ExtraIdle
  /\ (InitConstant \/ InitFibonacci \/ InitExponential)

NextBackoff == StrategyNext \/ StrategyReset \/ Advance

SpecBackoff == InitBackoff /\ [][NextBackoff]_vars

\* -------------------------------------------- classifier on its own
\* The error objects a classifier is asked about: an instance of each class,
\* and None.
Errors == (DOMAIN Parent) \cup {None}

\* ErrorWhitelist(): the instance holds a copy of the default set.
InitErrors ==
  /\ EngineIdle
  /\ strategy = [kind |-> "none"]
  /\ given = [kind |-> "none"]
  /\ history = <<>>
  /\ resets = 0
  /\ whitelist = WHITELIST
  /\ verdicts = <<>>
  /\ ExtraIdle

\* whitelist.isretry(error)
IsRetry ==
  /\ Len(verdicts) < MaxVerdicts
  /\ \E e \in Errors :
       verdicts' = Append(verdicts,
                          [error |-> e, retry |-> isretry(whitelist, e)])
  /\ UNCHANGED <<cfg, backoff, attempts, error, pc, start, res, delay, calls,
                 errCause, outcome, trace, raises, runs, prev, now, tape,
                 strategy, given, history, resets, whitelist, extra>>

NextErrors == IsRetry

SpecErrors == InitErrors /\ [][NextErrors]_vars

\* --------------------------------------- classifier objects and their sets
\* The set objects live in `heap`, by identity; object 0 is the process-wide
\* ErrorWhitelist.WHITELIST.  A classifier holds a reference to its set.
Registry == 0

\* The set objects something still refers to.
Live(insts) == {Registry} \cup {insts[i].list : i \in 1..Len(insts)}

\* The identity a newly created set gets.
Fresh(h) ==
  CHOOSE n \in 1..(Cardinality(DOMAIN h) + 1) :
    n \notin DOMAIN h /\ \A k \in 1..(n - 1) : k \in DOMAIN h

\* Unreferenced sets are garbage.
Collect(h, insts) == [r \in Live(insts) |-> h[r]]

Range(seq) == {seq[k] : k \in 1..Len(seq)}

\* issubclass(err, BaseException): "int" is a class that is no exception,
\* "NoClass" an object that is no class (None, a dict).
IsExceptionClass(x) == x \in DOMAIN Parent
IsClass(x) == x \in (DOMAIN Parent) \cup {"int"}

\* The elements the setter's loop adds before it raises or ends.
RECURSIVE Accepted(_)
Accepted(items) ==
  IF items = <<>> THEN <<>>
  ELSE IF ~ IsExceptionClass(Head(items)) THEN <<>>
  ELSE <<Head(items)>> \o Accepted(Tail(items))

\* Mutant: set(...) of the constructor handed back the set it was given.
CopyOf_Alias(h, r) == [heap |-> h, ref |-> r]

\* set(s) / s.copy(): a new set object with the contents of object r.
CopyOf(h, r) ==
  LET n == Fresh(h) IN [heap |-> (n :> h[r]) @@ h, ref |-> n]

\* ErrorWhitelist.__init__(errors): a set of the given classes, or, for no
\* (or an empty) errors, a copy of the process-wide set.
NewClassifier(h, cls, errors) ==
  LET made == IF errors = {}
              THEN CopyOf(h, Registry)
              ELSE [heap |-> (Fresh(h) :> errors) @@ h, ref |-> Fresh(h)]
  IN [heap |-> made.heap,
      inst |-> [cls |-> cls, list |-> made.ref, explicit |-> errors # {},
                born |-> made.heap[made.ref], pristine |-> TRUE]]

\* Mutant: the setter adds to the set it finds.
Setter_Keeps(h, r, v) ==
  IF v.kind = "other" THEN [exc |-> "TypeError", heap |-> h, ref |-> r]
  ELSE LET n == Fresh(h)
       IN [exc |-> IF Accepted(v.items) = v.items THEN None ELSE "TypeError",
           heap |-> (n :> (h[r] \cup Range(Accepted(v.items)))) @@ h,
           ref |-> n]

\* The errors setter on the classifier whose set is object r, assigned the
\* value v (a list or tuple of items, or something else).
Setter(h, r, v) ==
  IF v.kind = "other" THEN [exc |-> "TypeError", heap |-> h, ref |-> r]
  ELSE LET n == Fresh(h)
       IN [exc |-> IF Accepted(v.items) = v.items THEN None ELSE "TypeError",
           heap |-> (n :> Range(Accepted(v.items))) @@ h,
           ref |-> n]

\* add(*errors): copy of the current set, the setter, then the union.
AddOf(h, r, items) ==
  LET whitelist_ == h[r]
      set == Setter(h, r, [kind |-> "tuple", items |-> items])
  IN IF set.exc # None THEN set
     ELSE [exc |-> None,
           heap |-> [set.heap EXCEPT ![set.ref] = whitelist_ \cup @],
           ref |-> set.ref]

\* The classes add_whitelist_error's comprehension adds before it raises or
\* ends: an object that is no class makes issubclass raise, a class that is
\* no exception is skipped.
RECURSIVE Whitelisted(_)
Whitelisted(items) ==
  IF items = <<>> THEN {}
  ELSE IF ~ IsClass(Head(items)) THEN {}
  ELSE (IF IsExceptionClass(Head(items)) THEN {Head(items)} ELSE {})
         \cup Whitelisted(Tail(items))

\* add_whitelist_error(*errors): ErrorWhitelist.WHITELIST.add(error), in place.
AddWhitelistErrorOf(h, items) ==
  [exc |-> IF \E k \in 1..Len(items) : ~ IsClass(items[k])
           THEN "TypeError" ELSE None,
   heap |-> [h EXCEPT ![Registry] = @ \cup Whitelisted(items)]]

\* Mutant: the blacklist matches the listed classes only, not subclasses.
BlacklistIsRetry_ExactClass(list, e) == e \in list /\ RetryFlag(e) = FALSE

\* Mutant: the blacklist does not look at the override flag.
BlacklistIsRetry_NoFlag(list, e) ==
  e # None /\ \E c \in list : IsInstance(e, c)

\* ErrorBlacklist.isretry
BlacklistIsRetry(list, e) == ~ isretry(list, e)

\* classifier.isretry(error), by the class of the classifier
IsRetryOf(h, inst, e) ==
  IF inst.cls = "ErrorBlacklist" THEN BlacklistIsRetry(h[inst.list], e)
  ELSE isretry(h[inst.list], e)

\* The argument tuples tried: exception classes, a class that is no
\* exception, an object that is no class.
ArgTuples == {<<"ValueError">>, <<"ImportError", "KeyError">>, <<"int">>,
              <<"ValueError", "NoClass">>}
Assigned == [kind : {"tuple"}, items : ArgTuples]
               \cup {[kind |-> "other", items |-> <<>>]}
ExplicitLists == {{}, {"ImportError"}}
ClassifierClasses == {"ErrorWhitelist", "ErrorBlacklist"}

\* What an operation leaves in `last`: its arguments and outcome, and the
\* contents of every set as they were before it.
Did(op, who, args, exc, rets) ==
  [n |-> last.n + 1, op |-> op, who |-> who, args |-> args, exc |-> exc,
   sets |-> [i \in 1..Len(instances) |-> heap[instances[i].list]],
   registry |-> heap[Registry], rets |-> rets]

\* ErrorWhitelist(errors) / ErrorBlacklist(errors)
Construct ==
  /\ last.n < MaxListOps
  /\ Len(instances) < MaxInstances
  /\ \E cls \in ClassifierClasses, errors \in ExplicitLists :
       LET new == NewClassifier(heap, cls, errors)
       IN /\ instances' = Append(instances, new.inst)
          /\ heap' = Collect(new.heap, instances')
          /\ last' = Did("construct", Len(instances) + 1, <<>>, None, <<>>)
  /\ UNCHANGED <<engine, strategy, given, history, resets, whitelist,
                 verdicts, classattr, retriers, ctx, shared, co>>

\* classifier.errors = value
SetErrors ==
  /\ last.n < MaxListOps
  /\ \E i \in 1..Len(instances), v \in Assigned :
       LET set == Setter(heap, instances[i].list, v)
       IN /\ instances' = [instances EXCEPT ![i].list = set.ref,
                                            ![i].pristine = FALSE]
          /\ heap' = Collect(set.heap, instances')
          /\ last' = Did("set", i, v.items, set.exc, <<>>)
  /\ UNCHANGED <<engine, strategy, given, history, resets, whitelist,
                 verdicts, classattr, retriers, ctx, shared, co>>

\* classifier.add(*errors)
Add ==
  /\ last.n < MaxListOps
  /\ \E i \in 1..Len(instances), items \in ArgTuples :
       LET add == AddOf(heap, instances[i].list, items)
       IN /\ instances' = [instances EXCEPT ![i].list = add.ref,
                                            ![i].pristine = FALSE]
          /\ heap' = Collect(add.heap, instances')
          /\ last' = Did("add", i, items, add.exc, <<>>)
  /\ UNCHANGED <<engine, strategy, given, history, resets, whitelist,
                 verdicts, classattr, retriers, ctx, shared, co>>

\* classifier.errors.add(cls): the getter hands out the set itself.
Mutate ==
  /\ last.n < MaxListOps
  /\ \E i \in 1..Len(instances) :
       /\ heap' = [heap EXCEPT ![instances[i].list] = @ \cup {"KeyError"}]
       /\ instances' = [instances EXCEPT ![i].pristine = FALSE]
       /\ last' = Did("mutate", i, <<"KeyError">>, None, <<>>)
  /\ UNCHANGED <<engine, strategy, given, history, resets, whitelist,
                 verdicts, classattr, retriers, ctx, shared, co>>

\* add_whitelist_error(*errors)
AddWhitelistError ==
  /\ last.n < MaxListOps
  /\ \E items \in ArgTuples :
       LET add == AddWhitelistErrorOf(heap, items)
       IN /\ heap' = add.heap
          /\ last' = Did("add_whitelist_error", 0, items, add.exc, <<>>)
  /\ UNCHANGED <<engine, strategy, given, history, resets, whitelist,
                 verdicts, instances, classattr, retriers, ctx, shared, co>>

\* isretry(error) of every classifier, for every error.
IsRetryAll ==
  /\ last.n < MaxListOps
  /\ last.op # "isretry"
  /\ last' = Did("isretry", 0, <<>>, None,
                 [i \in 1..Len(instances) |->
                    [e \in Errors |-> IsRetryOf(heap, instances[i], e)]])
  /\ UNCHANGED <<engine, strategy, given, history, resets, whitelist,
                 verdicts, heap, instances, classattr, retriers, ctx, shared,
                 co>>

\* The module is imported, and a first classifier constructed.
InitLists ==
  /\ EngineIdle
  /\ strategy = [kind |-> "none"]
  /\ given = [kind |-> "none"]
  /\ history = <<>>
  /\ resets = 0
  /\ whitelist = {}
  /\ verdicts = <<>>
  /\ classattr = <<>>
  /\ retriers = <<>>
  /\ ctx = <<>>
  /\ shared = <<>>
  /\ co = <<>>
  /\ last = NoLast
  /\ \E cls \in ClassifierClasses, errors \in ExplicitLists :
       LET new == NewClassifier((Registry :> WHITELIST), cls, errors)
       IN /\ instances = <<new.inst>>
          /\ heap = new.heap

NextLists ==
  \/ Construct
  \/ SetErrors
  \/ Add
  \/ Mutate
  \/ AddWhitelistError
  \/ IsRetryAll

SpecLists == InitLists /\ [][NextLists]_vars

\* ------------------------------------------------- retrier as a with-block
\* No exception, and the exceptions a with-block ends with: their class and
\* their message.
NoExc == [type |-> None, msg |-> ""]
Messages == {"", "Error message here."}
BlockEnds ==
  {NoExc} \cup [type : {"RuntimeError", "UnicodeDecodeError",
                        "MaxRetriesExceeded"},
                msg : Messages]

\* Classes whose constructor cannot be called without arguments.
NeedsArguments == {"UnicodeDecodeError"}

\* __exit__(error, trace, extra) is handed the exception's class as `error`;
\* `raise error` raises a new instance made without arguments.
Forward(x) ==
  IF x = NoExc THEN NoExc
  ELSE IF x.type \in NeedsArguments
       THEN [type |-> "TypeError", msg |-> "takes arguments (0 given)"]
       ELSE [type |-> x.type, msg |-> ""]

\* __enter__: reset the state, hand out the retrier.
Enter(m) ==
  /\ m \in cfg.active
  /\ ctx.state = "out"
  /\ pc[m] \in {"idle", "done"}
  /\ error' = [error EXCEPT ![m] = None]
  /\ attempts' = [attempts EXCEPT ![m] = 0]
  /\ ctx' = [ctx EXCEPT !.state = "in", !.runs = runs[m]]
  /\ UNCHANGED <<cfg, backoff, pc, start, res, delay, calls, errCause,
                 outcome, trace, raises, runs, prev, now, tape, strategy,
                 given, history, resets, whitelist, verdicts, heap, instances,
                 last, classattr, retriers, shared, co>>

\* The block ends, normally or with an exception, and __exit__ is called.
Exit(m) ==
  /\ m \in cfg.active
  /\ ctx.state = "in"
  /\ pc[m] \in {"idle", "done"}
  /\ \E x \in BlockEnds :
       ctx' = [ctx EXCEPT !.state = "exited", !.raised = x,
                          !.forwarded = Forward(x)]
  /\ UNCHANGED <<engine, strategy, given, history, resets, whitelist,
                 verdicts, heap, instances, last, classattr, retriers,
                 shared, co>>

\* A retrier without evaluators or timeout, used before, in and after a
\* with-block.
InitContext ==
  /\ \E c \in Configs : /\ c.timeout = 0
                        /\ ~ c.error_evaluator
                        /\ ~ c.evaluator
                        /\ ~ c.on_retry
                        /\ EngineInit(c)
  /\ strategy = [kind |-> "none"]
  /\ given = [kind |-> "none"]
  /\ history = <<>>
  /\ resets = 0
  /\ whitelist = {}
  /\ verdicts = <<>>
  /\ heap = <<>>
  /\ instances = <<>>
  /\ last = NoLast
  /\ classattr = <<>>
  /\ retriers = <<>>
  /\ shared = <<>>
  /\ co = <<>>
  /\ ctx = [state |-> "out", raised |-> NoExc, forwarded |-> NoExc,
            runs |-> 0]

NextContext ==
  \/ \E m \in Modes : Enter(m)
  \/ \E m \in Modes : Exit(m)
  \/ \E m \in Modes : Run(m)
  \/ \E m \in Modes : Invoke(m)
  \/ \E m \in Modes : HandleError(m)
  \/ \E m \in Modes : Sleep(m)

SpecContext == InitContext /\ [][NextContext]_vars

\* ------------------------------------------- class-level error policies
\* Retrier and AsyncRetrier each define `whitelist = None` and
\* `blacklist = None` in their class body; `classattr` holds the two class
\* dictionaries.  "B1" is an ErrorBlacklist and "W1" an ErrorWhitelist made by
\* the application, "fresh" a default ErrorWhitelist made by a constructor.
RetrierClasses == {"Retrier", "AsyncRetrier"}
PolicyValues ==
  [blacklist |-> {None, "B1"}, whitelist |-> {None, "W1"}]
NoPolicy == [blacklist |-> None, whitelist |-> None]

\* (cls.blacklist or cls.whitelist or ErrorWhitelist()), cls being the class
\* that the constructor names.
PolicyOf(cls) ==
  IF classattr[cls].blacklist # None THEN classattr[cls].blacklist
  ELSE IF classattr[cls].whitelist # None THEN classattr[cls].whitelist
  ELSE "fresh"

\* Retrier.blacklist = value, AsyncRetrier.whitelist = value, ...
Assign ==
  /\ \E cls \in RetrierClasses, attr \in {"blacklist", "whitelist"} :
       \E v \in PolicyValues[attr] :
         /\ classattr[cls][attr] # v
         /\ classattr' = [classattr EXCEPT ![cls][attr] = v]
  /\ UNCHANGED <<engine, strategy, given, history, resets, whitelist,
                 verdicts, heap, instances, last, retriers, ctx, shared, co>>

\* Retrier(...) / AsyncRetrier(...), with or without an error_evaluator.
NewRetrier ==
  /\ Len(retriers) < MaxInstances
  /\ \E cls \in RetrierClasses, custom \in BOOLEAN :
       retriers' = Append(retriers,
                          [cls |-> cls,
                           error_evaluator |->
                             IF custom THEN "custom"
                             ELSE "is_whitelisted_error",
                           whitelist |-> PolicyOf(cls),
                           seen |-> classattr["Retrier"]])
  /\ UNCHANGED <<engine, strategy, given, history, resets, whitelist,
                 verdicts, heap, instances, last, classattr, ctx, shared, co>>

InitPolicy ==
  /\ EngineIdle
  /\ strategy = [kind |-> "none"]
  /\ given = [kind |-> "none"]
  /\ history = <<>>
  /\ resets = 0
  /\ whitelist = {}
  /\ verdicts = <<>>
  /\ heap = <<>>
  /\ instances = <<>>
  /\ last = NoLast
  /\ ctx = <<>>
  /\ shared = <<>>
  /\ co = <<>>
  /\ classattr = [cls \in RetrierClasses |-> NoPolicy]
  /\ retriers = <<>>

NextPolicy ==
  \/ Assign
  \/ NewRetrier

SpecPolicy == InitPolicy /\ [][NextPolicy]_vars

\* ------------------------------------------ overlapping AsyncRetrier runs
\* Two run() coroutines on one event loop.  A coroutine runs undisturbed
\* between its suspension points, which are the await of the operation and
\* the await of the sleep.  The retriers have no timeout, no evaluator, no
\* on_retry and the default error_evaluator; the operation fails with errors
\* that are not whitelisted.
Tasks == {1, 2}
MaxTaskCalls == MaxRetries + 2

\* The two runs use one AsyncRetrier, two retriers built on one backoff
\* object, or two retriers with a backoff each.
Sharings == {"retrier", "backoff", "none"}

\* Mutant: both retriers were handed the same backoff object.
BackoffOf_Shared(t) == 1

\* The backoff object, and the retrier object, that the run of task t uses.
BackoffOf(t) == IF shared.sharing = "none" THEN t ELSE 1
RetrierOf(t) == IF shared.sharing = "retrier" THEN 1 ELSE t

\* The k-th error raised by the operation of task t; 0 stands for None.
ErrorOf(t, k) == 10 * t + k

\* Mutant: run() does not reset attempts.
RunReset_KeepsAttempts(t) ==
  [shared EXCEPT !.backoff[BackoffOf(t)] = ConstantReset(@),
                 !.error[RetrierOf(t)] = 0]

\* run(): self.backoff.reset(); self.error = None; self.attempts = 0
RunReset(t) ==
  [shared EXCEPT !.backoff[BackoffOf(t)] = ConstantReset(@),
                 !.error[RetrierOf(t)] = 0,
                 !.attempts[RetrierOf(t)] = 0]

\* The run ends: note the retrier's fields as the caller finds them.
Finished(c, how, sh, r) ==
  [c EXCEPT !.pc = "done", !.outcome = how,
            !.seen_attempts = sh.attempts[r], !.seen_error = sh.error[r]]

\* run() up to the first await of the operation.
AsyncRun(t) ==
  /\ co[t].pc = "idle"
  /\ shared' = RunReset(t)
  /\ co' = [u \in Tasks |->
              IF u = t
              THEN [co[t] EXCEPT
                      !.pc = "op",
                      !.overlapped =
                        \E v \in Tasks \ {t} : co[v].pc \in {"op", "sleep"}]
              ELSE IF co[u].pc \in {"op", "sleep"}
                   THEN [co[u] EXCEPT !.overlapped = TRUE]
                   ELSE co[u]]
  /\ UNCHANGED <<engine, strategy, given, history, resets, whitelist,
                 verdicts, heap, instances, last, classattr, retriers, ctx>>

\* The operation returns: _call clears error and run() returns.
AsyncReturn(t) ==
  /\ co[t].pc = "op"
  /\ LET r == RetrierOf(t)
         sh == [shared EXCEPT !.error[r] = 0]
     IN /\ shared' = sh
        /\ co' = [co EXCEPT
                    ![t] = Finished([@ EXCEPT !.calls = @ + 1], "return",
                                    sh, r)]
  /\ UNCHANGED <<engine, strategy, given, history, resets, whitelist,
                 verdicts, heap, instances, last, classattr, retriers, ctx>>

\* The operation raises: _handle_error up to the await of the sleep, or up
\* to MaxRetriesExceeded.
AsyncRaise(t) ==
  /\ co[t].pc = "op"
  /\ co[t].calls < MaxTaskCalls
  /\ LET r == RetrierOf(t)
         b == BackoffOf(t)
         e == ErrorOf(t, co[t].calls + 1)
         next == ConstantNext(shared.backoff[b])
         sh == [shared EXCEPT !.error[r] = e, !.backoff[b] = next[2]]
         c == [co[t] EXCEPT !.calls = @ + 1, !.lastErr = e]
     IN /\ shared' = sh
        /\ co' = [co EXCEPT
                    ![t] = IF next[1] = STOP
                           THEN Finished(c, "MaxRetriesExceeded", sh, r)
                           ELSE [c EXCEPT !.pc = "sleep"]]
  /\ UNCHANGED <<engine, strategy, given, history, resets, whitelist,
                 verdicts, heap, instances, last, classattr, retriers, ctx>>

\* The sleep ends: self.attempts += 1 and the operation is called again.
AsyncWake(t) ==
  /\ co[t].pc = "sleep"
  /\ shared' = [shared EXCEPT !.attempts[RetrierOf(t)] = @ + 1]
  /\ co' = [co EXCEPT ![t].pc = "op", ![t].retries = @ + 1]
  /\ UNCHANGED <<engine, strategy, given, history, resets, whitelist,
                 verdicts, heap, instances, last, classattr, retriers, ctx>>

InitOverlap ==
  /\ EngineIdle
  /\ strategy = [kind |-> "none"]
  /\ given = [kind |-> "none"]
  /\ history = <<>>
  /\ resets = 0
  /\ whitelist = {}
  /\ verdicts = <<>>
  /\ heap = <<>>
  /\ instances = <<>>
  /\ last = NoLast
  /\ classattr = <<>>
  /\ retriers = <<>>
  /\ ctx = <<>>
  /\ \E sharing \in Sharings, K \in 1..MaxRetries :
       shared = [sharing |-> sharing, K |-> K,
                 backoff |-> [b \in Tasks |-> ConstantBackoff(Interval, K)],
                 attempts |-> [r \in Tasks |-> 0],
                 error |-> [r \in Tasks |-> 0]]
  /\ co = [t \in Tasks |->
             [pc |-> "idle", outcome |-> "none", calls |-> 0, retries |-> 0,
              lastErr |-> 0, overlapped |-> FALSE, seen_attempts |-> 0,
              seen_error |-> 0]]

NextOverlap ==
  \/ \E t \in Tasks : AsyncRun(t)
  \/ \E t \in Tasks : AsyncReturn(t)
  \/ \E t \in Tasks : AsyncRaise(t)
  \/ \E t \in Tasks : AsyncWake(t)

SpecOverlap == InitOverlap /\ [][NextOverlap]_vars

\* ------------------------------------------------------- reading a run
Count(tr, ev) == Cardinality({i \in 1..Len(tr) : tr[i].ev = ev})

\* Number of operation invocations among the first i events.
OpsUpTo(tr, i) == Cardinality({j \in 1..i : tr[j].ev = "op"})

IsNext(e) == e.ev = "next"
IsCall(e) == e.ev \in {"op", "next", "on_retry", "sleep"}

\* The delays the backoff handed out, in order.
Delays(tr) == SelectSeq(tr, IsNext)

\* The k-th invocation of the operation raised an error that the active
\* classifier answers True for.
RetryableAt(k) ==
  /\ tape.op[k] \in OpRaises
  /\ IsInstance(tape.op[k], "Exception")
  /\ IF cfg.error_evaluator THEN tape.ee[k] = "True"
     ELSE tape.op[k] \notin {"ImportError", "SystemExit"}

\* on_retry and sleep returned normally after the k-th invocation.
HooksOkAt(k) == tape.on_retry[k] # "raise" /\ tape.sleep[k] # "raise"

Plain(m) == m = "sync" /\ pc[m] = "done" /\ cfg.timeout = 0

\* C1: blocking Retrier, no timeout, no evaluator: when the operation raised
\* a retryable error on its first N invocations and returned v on invocation
\* N+1, run() returned v, the operation was invoked N+1 times, each time with
\* the caller's arguments, on_retry was invoked N times, attempts = N and
\* error is None.
C1_FailNThenSucceed ==
  \A N \in 0..(MaxCalls - 1) :
    ( /\ Plain("sync")
      /\ ~ cfg.evaluator
      /\ calls["sync"] = N + 1
      /\ \A k \in 1..N : RetryableAt(k)
      /\ tape.op[N + 1] \in OpReturns )
    => /\ outcome["sync"] = Return(Returned(tape.op[N + 1]))
       /\ Count(trace["sync"], "op") = N + 1
       /\ \A i \in 1..Len(trace["sync"]) :
            trace["sync"][i].ev = "op" => trace["sync"][i].a = cfg.args
       /\ Count(trace["sync"], "on_retry") = (IF cfg.on_retry THEN N ELSE 0)
       /\ attempts["sync"] = N
       /\ error["sync"] = None

C1_Witness ==
  /\ Plain("sync")
  /\ ~ cfg.evaluator
  /\ cfg.on_retry
  /\ calls["sync"] = 2
  /\ RetryableAt(1)
  /\ tape.op[2] = "return v"
  /\ outcome["sync"] = Return("v")
  /\ attempts["sync"] = 1

\* C2: blocking Retrier, no timeout, ConstantBackoff(retries=K), K > 0: when
\* every invocation raised a retryable error (and on_retry and sleep
\* returned), run() raised MaxRetriesExceeded after K+1 invocations and K
\* sleeps, attempts = K and error is the last invocation's error.
C2_MaxRetries ==
  ( /\ Plain("sync")
    /\ cfg.backoff.kind = "constant"
    /\ cfg.backoff.retries > 0
    /\ \A k \in 1..calls["sync"] : RetryableAt(k) /\ HooksOkAt(k) )
  => /\ outcome["sync"].kind = "raise"
     /\ outcome["sync"].val = "MaxRetriesExceeded"
     /\ calls["sync"] = cfg.backoff.retries + 1
     /\ Count(trace["sync"], "op") = cfg.backoff.retries + 1
     /\ Count(trace["sync"], "sleep") = cfg.backoff.retries
     /\ attempts["sync"] = cfg.backoff.retries
     /\ error["sync"] = tape.op[calls["sync"]]

C2_Witness ==
  /\ Plain("sync")
  /\ cfg.backoff.kind = "constant"
  /\ cfg.backoff.retries = 1
  /\ \A k \in 1..2 : RetryableAt(k)
  /\ tape.op[1] # tape.op[2]
  /\ outcome["sync"].val = "MaxRetriesExceeded"
  /\ calls["sync"] = 2


\* C3 (as stated): blocking Retrier with timeout T > 0: whenever the elapsed
\* time exceeded T before the run ended, the run ended by raising
\* RetryTimeoutError.
C3_Original ==
  ( /\ pc["sync"] = "done"
    /\ cfg.timeout > 0
    /\ now - start["sync"] > cfg.timeout )
  => /\ outcome["sync"].kind = "raise"
     /\ outcome["sync"].val = "RetryTimeoutError"

\* C3 (amended): blocking Retrier with timeout T > 0: when the elapsed time
\* exceeds T at the timeout check that opens a loop iteration, run() ends
\* there by raising RetryTimeoutError with the recorded error as cause,
\* without invoking the operation or the backoff again.
C3_TimeoutAtCheck ==
  [][ ( /\ pc["sync"] = "check"
        /\ cfg.timeout > 0
        /\ now - start["sync"] > cfg.timeout
        /\ pc'["sync"] # "check" )
      => /\ pc'["sync"] = "done"
         /\ outcome'["sync"] = Raise("RetryTimeoutError", error["sync"])
         /\ calls'["sync"] = calls["sync"]
         /\ backoff'["sync"] = backoff["sync"]
         /\ attempts'["sync"] = attempts["sync"] ]_vars

C3_Witness ==
  /\ pc["sync"] = "done"
  /\ cfg.timeout > 0
  /\ outcome["sync"].val = "RetryTimeoutError"
  /\ outcome["sync"].cause # None
  /\ cfg.backoff.kind = "constant"
  /\ backoff["sync"].pending_retries > 0

\* The last invocation raised an error the active classifier answers False
\* for.
NonRetryableAt(k) ==
  /\ tape.op[k] \in OpRaises
  /\ IF cfg.error_evaluator
     THEN IsInstance(tape.op[k], "Exception") /\ tape.ee[k] = "False"
     ELSE tape.op[k] \in {"ImportError", "SystemExit"}

\* C4: when the operation raises an error the active classifier marks
\* non-retryable, run() re-raises that error, the error field holds it, and
\* no backoff.next(), on_retry, sleep or attempts increment happens for it.
C4_Claim ==
  ( /\ pc["sync"] = "done"
    /\ calls["sync"] >= 1
    /\ NonRetryableAt(calls["sync"]) )
  => /\ outcome["sync"].kind = "raise"
     /\ outcome["sync"].val = tape.op[calls["sync"]]
     /\ error["sync"] = tape.op[calls["sync"]]
     /\ attempts["sync"] = calls["sync"] - 1
     /\ trace["sync"][Len(trace["sync"])].ev \in {"op", "error_evaluator"}

\* C5: once the evaluator has returned True, nothing more is called: not
\* the error evaluator, the backoff, on_retry, sleep or the operation.
C5_Claim ==
  \A m \in Modes : \A i \in 1..Len(trace[m]) :
    ( /\ trace[m][i].ev = "evaluator"
      /\ tape.ev[OpsUpTo(trace[m], i)] = "True" )
    => i = Len(trace[m])

\* C6: once the error evaluator has returned a falsy value for an error,
\* run() has re-raised that error and nothing more was called.
C6_Claim ==
  \A m \in Modes : \A i \in 1..Len(trace[m]) :
    ( /\ cfg.error_evaluator
      /\ trace[m][i].ev = "error_evaluator"
      /\ tape.ee[OpsUpTo(trace[m], i)] \in {"False", "Falsy"} )
    => /\ i = Len(trace[m])
       /\ pc[m] = "done"
       /\ outcome[m].kind = "raise"
       /\ outcome[m].val = trace[m][i].a

C8_Claim ==
  \A m \in Modes : \A i \in 1..Len(raises[m]) :
    raises[m][i].error # None => raises[m][i].cause = raises[m][i].error

\* C9: on the same inputs and without timeout, Retrier.run and
\* AsyncRetrier.run end with the same outcome, the same attempts, the same
\* error and the same sequence of operation / next / on_retry / sleep calls.
C9_Claim ==
  (pc["sync"] = "done" /\ pc["async"] = "done")
  => /\ outcome["sync"].kind = outcome["async"].kind
     /\ outcome["sync"].val = outcome["async"].val
     /\ attempts["sync"] = attempts["async"]
     /\ error["sync"] = error["async"]
     /\ SelectSeq(trace["sync"], IsCall) = SelectSeq(trace["async"], IsCall)

\* C10: every run() of a reused Retrier starts with attempts = 0, error None
\* and the backoff reset, and a run that sees the same operation outcomes as
\* the run before it hands out the same delays and ends with the same
\* attempts and the same outcome.
C10_Reuse ==
  /\ ( pc["sync"] = "check" /\ calls["sync"] = 0 )
     => /\ attempts["sync"] = 0
        /\ error["sync"] = None
        /\ backoff["sync"] = cfg.backoff
  /\ ( /\ pc["sync"] = "done"
       /\ runs["sync"] >= 2
       /\ (cfg.timeout = 0 \/ prev["sync"].calls = calls["sync"]) )
     => /\ calls["sync"] = prev["sync"].calls
        /\ Delays(trace["sync"]) = Delays(prev["sync"].trace)
        /\ attempts["sync"] = prev["sync"].attempts
        /\ outcome["sync"] = prev["sync"].outcome

C10_Witness ==
  /\ pc["sync"] = "done"
  /\ runs["sync"] = 2
  /\ calls["sync"] = 2
  /\ prev["sync"].outcome.val = "MaxRetriesExceeded"
  /\ outcome["sync"].val = "MaxRetriesExceeded"
  /\ Len(Delays(trace["sync"])) = 2

\* C11: whenever run() returned normally, the value it returned is the value
\* the last invocation of the operation returned and the error field is None,
\* whatever the evaluator answered.
C11_Claim ==
  \A m \in Modes :
    (pc[m] = "done" /\ outcome[m].kind = "return")
    => /\ outcome[m].val = Returned(tape.op[calls[m]])
       /\ error[m] = None

\* C12: a retrier without timeout (0 or None) never ends a run with a timeout
\* failure, however much time elapses during the run.
C12_NoTimeout ==
  \A m \in Modes :
    cfg.timeout = 0
    => /\ outcome[m].val \notin {"RetryTimeoutError", "TimeoutError"}
       /\ \A i \in 1..Len(raises[m]) :
            raises[m][i].exc \notin {"RetryTimeoutError", "TimeoutError"}

C12_Witness ==
  \E m \in Modes :
    /\ cfg.timeout = 0
    /\ pc[m] = "done"
    /\ calls[m] = 2
    /\ now - start[m] > Timeout
    /\ Count(trace[m], "sleep") = 1
    /\ outcome[m].kind = "return"

\* ------------------------------------------------- strategy claims
\* The integer constructor argument `f`.
Given(f) == given[f][1]

Returns(n) == history[n].exc = None

\* C13: ConstantBackoff(interval=i, retries=r), r > 0: counted from
\* construction or from the last reset(), the first r calls of next() return
\* i and call r+1 (and any later one) returns STOP; right after construction
\* or reset() the budget is full: pending_retries = r.
C13_Constant ==
  (strategy.kind = "constant" /\ Given("retries") > 0)
  => /\ \A n \in 1..Len(history) :
          /\ Returns(n)
          /\ history[n].ret = (IF n <= Given("retries")
                               THEN Given("interval") ELSE STOP)
     /\ history = <<>> => strategy.pending_retries = Given("retries")

C13_Witness ==
  /\ strategy.kind = "constant"
  /\ Given("retries") = 2
  /\ Given("interval") = Interval
  /\ resets = 1
  /\ Len(history) = 4
  /\ history[2].ret = Interval
  /\ history[3].ret = STOP

\* The series of C14: g(1) = a, g(2) = 2a, g(n) = g(n-1) + g(n-2).
RECURSIVE g(_, _)
g(a, n) == IF n = 1 THEN a ELSE IF n = 2 THEN 2 * a
           ELSE g(a, n - 1) + g(a, n - 2)

\* C14: FibonacciBackoff(initial=a>=1, multiplier=m, retries=r), r > 0:
\* counted from construction or from the last reset(), call n of next()
\* returns m*g(n) for n <= r and STOP for n > r; right after construction or
\* reset() prev = 0, retries = 0 and current = a.
C14_Fibonacci ==
  (strategy.kind = "fibonacci" /\ Given("retries") > 0 /\ Given("initial") >= 1)
  => /\ \A n \in 1..Len(history) :
          /\ Returns(n)
          /\ history[n].ret = (IF n <= Given("retries")
                               THEN Given("multiplier") * g(Given("initial"), n)
                               ELSE STOP)
     /\ history = <<>> => /\ strategy.prev = 0
                          /\ strategy.pending_retries = 0
                          /\ strategy.current = Given("initial")

C14_Witness ==
  /\ strategy.kind = "fibonacci"
  /\ Given("retries") = 4
  /\ Given("initial") = 2
  /\ Given("multiplier") = 3
  /\ resets = 1
  /\ Len(history) = 5
  /\ history[4].ret = 30
  /\ history[5].ret = STOP

\* A strategy built with a budget of 0.
Unlimited ==
  \/ strategy.kind \in {"constant", "fibonacci"} /\ Given("retries") = 0
  \/ strategy.kind = "exponential" /\ Given("max_elapsed") = 0

Negative == \E f \in DOMAIN given \ {"kind"} : given[f][1] < 0

\* C16: a strategy given a negative constructor argument does not get
\* constructed (the constructor fails), and on a constructed strategy next()
\* never fails and returns STOP or a non-negative delay.
C16_Claim ==
  /\ (given.kind # "none" /\ Negative) => strategy = AssertionError
  /\ \A n \in 1..Len(history) :
       /\ Returns(n)
       /\ (history[n].ret >= 0 \/ history[n].ret = STOP)

\* C17: ExponentialBackOff: current_interval never exceeds max_interval; a
\* next() that returns a delay strictly increases current_interval unless it
\* is at max_interval already, where it stays; right after reset() it is
\* interval.
C17_Claim ==
  strategy.kind = "exponential"
  => /\ QLe(strategy.current_interval, <<strategy.max_interval, 1>>)
     /\ \A n \in 1..Len(history) :
          (Returns(n) /\ history[n].ret # STOP)
          => IF history[n].before.current_interval
                  = <<strategy.max_interval, 1>>
             THEN history[n].after.current_interval
                    = <<strategy.max_interval, 1>>
             ELSE QLt(history[n].before.current_interval,
                      history[n].after.current_interval)
     /\ (history = <<>> /\ resets > 0)
        => strategy.current_interval = <<strategy.interval, 1>>

C19_Claim ==
  strategy.kind = "exponential"
  => \A n \in 1..Len(history) :
       (Returns(n) /\ history[n].ret # STOP)
       => LET c == history[n].before.current_interval
              j == QMul(strategy.factor, c)
          IN /\ QLe(QSub(c, j), <<history[n].ret, 1>>)
             /\ QLe(<<history[n].ret, 1>>, QAdd(c, j))

\* ------------------------------------------------ classifier claims
\* The classes of the model that are a built-in whitelisted category or a
\* subclass of one, and whose instances carry no __retry__ = True.
NotRetryable ==
  {"SystemExit", "KeyboardInterrupt", "IndexError", "ImportError",
   "ModuleNotFoundError", "SyntaxError", "ReferenceError",
   "NotRetriableError", "NoRetryError"}

\* C20: a default ErrorWhitelist answers "not retryable" exactly for the
\* errors that are an instance of a built-in whitelisted category, or of a
\* subclass of one, and carry no override flag; every other error, and a
\* flagged error of a whitelisted category, is retryable.
C20_DefaultWhitelist ==
  \A i \in 1..Len(verdicts) :
    verdicts[i].retry = (verdicts[i].error \notin NotRetryable)

C20_Witness ==
  /\ Len(verdicts) = 2
  /\ verdicts[1] = [error |-> "NoRetryError", retry |-> FALSE]
  /\ verdicts[2] = [error |-> "FlaggedImportError", retry |-> TRUE]

\* ------------------------------------------------- classifier claims
\* The set of classifier i, and whether error e is an instance of one of a
\* set's classes.
ListOf(i) == heap[instances[i].list]
Matched(list, e) == e # None /\ \E c \in list : IsInstance(e, c)
Asked == last.op = "isretry"
Blacklists == {i \in 1..Len(instances) : instances[i].cls = "ErrorBlacklist"}
Whitelists == {i \in 1..Len(instances) : instances[i].cls = "ErrorWhitelist"}

\* C21: for the same set and the same error without the override flag, the
\* blacklist's answer is the negation of the whitelist's answer.
C21_Negation ==
  Asked =>
    \A i \in Blacklists, j \in Whitelists :
      ListOf(i) = ListOf(j) =>
        \A e \in Errors :
          ~ RetryFlag(e) => last.rets[i][e] = ~ last.rets[j][e]

C21_Witness ==
  /\ Asked
  /\ \E i \in Blacklists, j \in Whitelists :
       /\ ListOf(i) = ListOf(j)
       /\ ListOf(i) # {}
       /\ last.rets[i]["ModuleNotFoundError"] = TRUE
       /\ last.rets[j]["ModuleNotFoundError"] = FALSE
       /\ last.rets[i]["ValueError"] = FALSE
       /\ last.rets[j]["ValueError"] = TRUE

\* C22 as stated: under a blacklist the override flag has no effect, the
\* answer is true exactly when the error's class is matched by the set.
C22_Original ==
  Asked =>
    \A i \in Blacklists : \A e \in Errors \ {None} :
      last.rets[i][e] = Matched(ListOf(i), e)

\* C22: under a blacklist an error is retryable exactly when its class is
\* matched by the set and it does not carry the override flag.
C22_FlagMatters ==
  Asked =>
    \A i \in Blacklists : \A e \in Errors \ {None} :
      last.rets[i][e] = (Matched(ListOf(i), e) /\ ~ RetryFlag(e))

C22_Witness ==
  /\ Asked
  /\ \E i \in Blacklists :
       /\ "ImportError" \in ListOf(i)
       /\ last.rets[i]["ImportError"] = TRUE
       /\ last.rets[i]["FlaggedImportError"] = FALSE

\* C23: add keeps the entries the classifier had, whether it returns or
\* raises TypeError; when it returns the set is the old one plus the
\* arguments.
C23_Claim ==
  last.op = "add" =>
    /\ last.sets[last.who] \subseteq ListOf(last.who)
    /\ last.exc \in {None, "TypeError"}
    /\ last.exc = None =>
         ListOf(last.who) = last.sets[last.who] \cup Range(last.args)

\* C24: assigning a list or tuple of exception classes makes the set exactly
\* those classes; anything else raises TypeError.
C24_Setter ==
  last.op = "set" =>
    \* a value that is no list or tuple is recorded with no items
    LET valid == /\ last.args # <<>>
                 /\ \A k \in 1..Len(last.args) : IsExceptionClass(last.args[k])
    IN /\ valid => last.exc = None /\ ListOf(last.who) = Range(last.args)
       /\ ~ valid => last.exc = "TypeError"

C24_Witness ==
  /\ last.op = "set"
  /\ last.exc = None
  /\ last.args = <<"ValueError">>
  /\ last.sets[last.who] # {}
  /\ ~ (last.sets[last.who] \subseteq {"ValueError"})
  /\ ListOf(last.who) = {"ValueError"}

\* C25: a whitelist constructed without a list of its own starts from the
\* process-wide set as add_whitelist_error has left it, and so answers no
\* for an instance of an added class; every classifier's set is a private
\* copy, which only that classifier's own operations change; no operation on
\* a classifier changes the process-wide set.
C25_GlobalWhitelist ==
  /\ \A i \in 1..Len(instances) :
       instances[i].pristine => ListOf(i) = instances[i].born
  /\ last.op = "construct" =>
       /\ ~ instances[last.who].explicit =>
            instances[last.who].born = last.registry
       /\ \A i \in 1..Len(last.sets) : ListOf(i) = last.sets[i]
  /\ last.op = "add_whitelist_error" =>
       /\ \A i \in 1..Len(instances) : ListOf(i) = last.sets[i]
       /\ last.registry \subseteq heap[Registry]
       /\ last.exc = None =>
            heap[Registry] =
              last.registry \cup {c \in Range(last.args) : IsExceptionClass(c)}
  /\ last.op \in {"construct", "set", "add", "mutate", "isretry"} =>
       heap[Registry] = last.registry
  /\ last.op \in {"set", "add", "mutate"} =>
       \A i \in 1..Len(instances) : i # last.who => ListOf(i) = last.sets[i]
  /\ Asked =>
       \A i \in Whitelists :
         instances[i].pristine /\ ~ instances[i].explicit =>
           \A e \in Errors \ {None} :
             Matched(instances[i].born, e) /\ ~ RetryFlag(e) =>
               last.rets[i][e] = FALSE

C25_Witness ==
  /\ Asked
  /\ "ValueError" \in heap[Registry]
  /\ \E i, j \in Whitelists :
       /\ ~ instances[i].explicit /\ instances[i].pristine
       /\ "ValueError" \notin ListOf(i)
       /\ last.rets[i]["ValueError"] = TRUE
       /\ ~ instances[j].explicit /\ instances[j].pristine
       /\ "ValueError" \in ListOf(j)
       /\ last.rets[j]["ValueError"] = FALSE

\* ------------------------------------------------------ with-block claim
\* C26: the exception a with-block raises leaves the block as the same
\* exception, same class and same message; right after entering, attempts is
\* 0 and error is None.
C26_Claim ==
  /\ ctx.state = "exited" => ctx.forwarded = ctx.raised
  /\ \A m \in cfg.active :
       ctx.state = "in" /\ runs[m] = ctx.runs =>
         attempts[m] = 0 /\ error[m] = None

\* ----------------------------------------------------- class policy claim
\* C27: a retrier of either class constructed without an error_evaluator
\* classifies with the blacklist assigned to Retrier.blacklist, whatever
\* Retrier.whitelist holds, and with a fresh default whitelist when neither
\* attribute of Retrier is set.
C27_Claim ==
  \A k \in 1..Len(retriers) :
    retriers[k].error_evaluator = "is_whitelisted_error" =>
      /\ retriers[k].seen.blacklist # None =>
           retriers[k].whitelist = retriers[k].seen.blacklist
      /\ retriers[k].seen = NoPolicy => retriers[k].whitelist = "fresh"

\* ------------------------------------------------ overlapping run claims
\* C28: when each run has a backoff object of its own, a run ends with
\* MaxRetriesExceeded only after exactly K retries of its own and never
\* performs more than K retries, in every interleaving.
C28_OwnBackoff ==
  shared.sharing = "none" =>
    \A t \in Tasks :
      /\ co[t].retries <= shared.K
      /\ co[t].outcome = "MaxRetriesExceeded" => co[t].retries = shared.K

\* With one backoff object for both runs: a run that gave up before K
\* retries of its own, and a run that made more than K.
C28_Witness ==
  /\ shared.sharing = "backoff"
  /\ \E t, u \in Tasks :
       /\ co[t].outcome = "MaxRetriesExceeded"
       /\ co[t].retries < shared.K
       /\ co[u].retries > shared.K

\* C29: when a run that did not overlap with another run finishes, attempts
\* is the number of retries that run made and error is the last error it
\* saw, or None after a success.
C29_Sequential ==
  \A t \in Tasks :
    co[t].pc = "done" /\ ~ co[t].overlapped =>
      /\ co[t].seen_attempts = co[t].retries
      /\ co[t].seen_error =
           (IF co[t].outcome = "return" THEN 0 ELSE co[t].lastErr)

\* Two overlapping runs on one retrier: a run finishes and attempts is not
\* the number of its retries.
C29_Witness ==
  /\ shared.sharing = "retrier"
  /\ \E t \in Tasks :
       /\ co[t].pc = "done"
       /\ co[t].overlapped
       /\ co[t].seen_attempts # co[t].retries

\* ------------------------------------------------------ retry cycle claim
\* C30: in both modes a retry cycle takes the delay from the backoff, then
\* calls on_retry with the error and that delay, then sleeps for it, and
\* increments attempts only once the sleep is over: while the n-th sleep of
\* a run is in progress attempts is n - 1.
C30_Claim ==
  \A m \in cfg.active :
    /\ pc[m] = "sleep" => attempts[m] = Count(trace[m], "sleep")
    /\ \A i \in 1..Len(trace[m]) :
         /\ trace[m][i].ev = "on_retry" =>
              /\ i > 1
              /\ trace[m][i - 1].ev = "next"
              /\ trace[m][i].d = trace[m][i - 1].d
         /\ trace[m][i].ev = "sleep" =>
              /\ i > 1
              /\ trace[m][i - 1].ev = (IF cfg.on_retry THEN "on_retry"
                                       ELSE "next")
              /\ trace[m][i].d = trace[m][i - 1].d

\* ------------------------------------------------ claims on hooks and results
\* C31: when on_retry raises, run() ends at once with that exception: the
\* observer call is the last call of the run (no sleep, no further
\* invocation), attempts counts only the retries made before, and error is
\* still the error that on_retry was called with.
C31_HookRaises ==
  \A m \in cfg.active :
    (calls[m] > 0 /\ tape.on_retry[calls[m]] = "raise") =>
      LET tr == trace[m] IN
      /\ pc[m] = "done"
      /\ outcome[m] = Raise("HookError", None)
      /\ tr[Len(tr)].ev = "on_retry"
      /\ tr[Len(tr)].a = error[m]
      /\ error[m] # None
      /\ Count(tr, "op") = Count(tr, "on_retry")
      /\ attempts[m] = Count(tr, "sleep")
      /\ attempts[m] = Count(tr, "on_retry") - 1

\* on_retry raises on the second retry, after one full retry cycle.
C31_Witness ==
  \E m \in cfg.active :
    /\ tape.on_retry[2] = "raise"
    /\ calls[m] = 2
    /\ pc[m] = "done"
    /\ attempts[m] = 1
    /\ error[m] = "ValueError"

\* The error of the evaluator, whichever way it came, and a trace with the
\* errors so named.
SameError(x) == IF x = "EvalRaised" THEN "EvalReturned" ELSE x
Named(tr) == [i \in 1..Len(tr) |-> [tr[i] EXCEPT !.a = SameError(@)]]
Mirrored(m) == pc[m] = "done" /\ runs[m] = 2

\* C32: a run in which the evaluator returns an error object and the run on
\* the same inputs in which it raises that error instead end alike: same
\* outcome, same attempts, same error field, and the same sequence of
\* operation, evaluator, error_evaluator, next, on_retry and sleep calls with
\* the same arguments.
C32_ReturnedAsRaised ==
  \A m \in cfg.active :
    Mirrored(m) =>
      /\ outcome[m].kind = prev[m].outcome.kind
      /\ SameError(outcome[m].val) = SameError(prev[m].outcome.val)
      /\ attempts[m] = prev[m].attempts
      /\ SameError(error[m]) = SameError(prev[m].error)
      /\ calls[m] = prev[m].calls
      /\ Named(trace[m]) = Named(prev[m].trace)

\* The evaluator returned an error on the first call and raised one on the
\* second; both were retried, and the mirrored run has ended as well.
C32_Witness ==
  \E m \in cfg.active :
    /\ Mirrored(m)
    /\ tape.ev[1] = "Error"
    /\ tape.ev[2] = "Raise"
    /\ calls[m] = 2
    /\ Count(trace[m], "sleep") >= 1
    /\ Count(trace[m], "next") = 2

\* C33: with an evaluator configured, a run returns normally only after the
\* evaluator was called with the value the operation returned, None
\* included, and reported no failure.
C33_Claim ==
  \A m \in cfg.active :
    (cfg.evaluator /\ pc[m] = "done" /\ outcome[m].kind = "return") =>
      LET tr == trace[m] IN
      /\ tr[Len(tr)].ev = "evaluator"
      /\ tr[Len(tr)].a = Returned(tape.op[calls[m]])
      /\ tape.ev[calls[m]] = "Falsy"

\* Positions i < j of two consecutive invocations of the operation in a trace.
Consecutive(tr, i, j) ==
  /\ i < j
  /\ tr[i].ev = "op"
  /\ tr[j].ev = "op"
  /\ \A k \in (i + 1)..(j - 1) : tr[k].ev # "op"

\* The positions strictly between i and j that hold an event ev.
Between(tr, i, j, ev) == {k \in (i + 1)..(j - 1) : tr[k].ev = ev}

\* C34: a run is at one place at a time, and between two consecutive
\* invocations of the operation there is exactly one backoff.next() and,
\* after it, exactly one sleep, called with the delay next() returned.
\* Stated for the invocation just made and the one before it: every pair of
\* consecutive invocations is that pair in the state the later one leads to.
C34_Sequential ==
  \A m \in cfg.active :
    LET tr == trace[m]
        j == Len(tr)
    IN
    /\ Count(tr, "op") = calls[m]
    /\ (j > 0 /\ tr[j].ev = "op" /\ calls[m] > 1) =>
         \E i \in 1..(j - 1) :
           /\ Consecutive(tr, i, j)
           /\ Cardinality(Between(tr, i, j, "next")) = 1
           /\ Cardinality(Between(tr, i, j, "sleep")) = 1
           /\ \A n \in Between(tr, i, j, "next"),
                 z \in Between(tr, i, j, "sleep") :
                /\ n < z
                /\ tr[n].d # STOP
                /\ tr[z].d = tr[n].d
                /\ tape.sleep[OpsUpTo(tr, z)] = "ok"

\* Two invocations with a positive delay slept in between.
C34_Witness ==
  \E m \in cfg.active :
    /\ trace[m] # <<>>
    /\ trace[m][Len(trace[m])].ev = "op"
    /\ Count(trace[m], "op") = 2
    /\ \E z \in 1..Len(trace[m]) :
         trace[m][z].ev = "sleep" /\ trace[m][z].d = Interval

\* The error last handed to the error evaluator in a trace, None if none was.
IsHandled(e) == e.ev = "error_evaluator"
LastHandled(tr) ==
  LET es == SelectSeq(tr, IsHandled)
  IN IF es = <<>> THEN None ELSE es[Len(es)].a

\* C35: when the operation raises asyncio.CancelledError in an AsyncRetrier
\* run, run() ends with that cancellation straight after the invocation (no
\* error_evaluator, next, on_retry or sleep call follows), attempts is one
\* more than the number of retries made, and error is the last error
\* recorded before.
C35_Cancelled ==
  ("async" \in cfg.active /\ calls["async"] > 0
     /\ tape.op[calls["async"]] = "CancelledError") =>
    LET tr == trace["async"] IN
    /\ pc["async"] = "done"
    /\ outcome["async"] = Raise("CancelledError", None)
    /\ tr[Len(tr)].ev = "op"
    /\ attempts["async"] = Count(tr, "sleep") + 1
    /\ cfg.on_retry => attempts["async"] = Count(tr, "on_retry") + 1
    /\ error["async"] = LastHandled(tr)

\* Cancelled on the second invocation, after a ValueError was retried.
C35_Witness ==
  /\ "async" \in cfg.active
  /\ cfg.on_retry
  /\ calls["async"] = 2
  /\ tape.op[1] = "ValueError"
  /\ tape.op[2] = "CancelledError"
  /\ attempts["async"] = 2
  /\ error["async"] = "ValueError"
  /\ pc["async"] = "done"

\* The run of the AsyncRetrier has just ended with the timeout failure.
TimedOut == outcome'["async"].val = "TimeoutError"
              /\ outcome["async"].val # "TimeoutError"

\* C36: the deadline of an AsyncRetrier with a timeout T > 0 fires while the
\* run is suspended (in the operation, the evaluator, the error evaluator,
\* on_retry or sleep) and not before T has elapsed; the run then ends with
\* the timeout failure, nothing more is called, and the error field is left
\* as it was.
C36_Deadline ==
  [][ TimedOut =>
        /\ cfg.timeout > 0
        /\ now - start["async"] >= cfg.timeout
        /\ pc["async"] \in {"call", "eval", "handle", "notify", "sleep"}
        /\ pc'["async"] = "done"
        /\ outcome'["async"].kind = "raise"
        /\ error'["async"] = error["async"]
        /\ trace'["async"] = trace["async"]
        /\ calls'["async"] = calls["async"]
    ]_vars

\* The deadline fired during the sleep that followed a failed invocation.
C36_Witness ==
  /\ "async" \in cfg.active
  /\ pc["async"] = "done"
  /\ outcome["async"].val = "TimeoutError"
  /\ error["async"] = "ValueError"
  /\ calls["async"] = 1
  /\ trace["async"][Len(trace["async"])].ev \in {"next", "on_retry"}

\* C37: add_whitelist_error raises TypeError whenever one of its arguments
\* is not an exception class: an object that is no class, or a class that
\* does not derive from BaseException.
C37_Claim ==
  last.op = "add_whitelist_error" =>
    ((\E k \in 1..Len(last.args) : ~ IsExceptionClass(last.args[k]))
       => last.exc = "TypeError")

\* ------------------------------------------------------ termination claims
\* C38: with a budget of K > 0 retries and no timeout, a blocking run whose
\* operation, hooks and sleep come back always ends, by a return, by an
\* exception or by MaxRetriesExceeded, and invokes the operation at most
\* K + 1 times.
C38_Terminates ==
  /\ [](calls["sync"] <= cfg.backoff.retries + 1)
  /\ <>(/\ pc["sync"] = "done"
        /\ outcome["sync"].kind \in {"return", "raise"})

\* The budget was used up: K + 1 invocations, then MaxRetriesExceeded.
C38_Witness ==
  /\ pc["sync"] = "done"
  /\ cfg.backoff.retries > 0
  /\ calls["sync"] = cfg.backoff.retries + 1
  /\ outcome["sync"].val = "MaxRetriesExceeded"

\* C39: with an unlimited budget and an operation that always raises a
\* retryable error, a blocking run with a timeout T > 0 ends with
\* RetryTimeoutError once the clock has advanced far enough, and a run
\* without timeout never ends.
C39_TimeoutEnds ==
  /\ (cfg.timeout > 0) =>
       <>(pc["sync"] = "done"
            /\ outcome["sync"] = Raise("RetryTimeoutError", "ValueError"))
  /\ (cfg.timeout = 0) => [](pc["sync"] # "done")

\* A run that went round the loop more than once before it timed out, and
\* a run without timeout that is still going after as many rounds.
C39_Witness ==
  /\ calls["sync"] = MaxCalls
  /\ attempts["sync"] = MaxCalls
  /\ \/ cfg.timeout > 0 /\ outcome["sync"].val = "RetryTimeoutError"
     \/ cfg.timeout = 0 /\ pc["sync"] = "sleep"

\* C40: for ConstantBackoff and FibonacciBackoff built with retries = K > 0,
\* whatever next() and reset() calls were made, the budget consumed is
\* within 0..K, at most K values other than STOP were returned since the
\* last reset(), and a next() that returned STOP left every field as it
\* was, so that every later next() before the reset returned STOP too.
C40_BudgetBounded ==
  (strategy.kind \in {"constant", "fibonacci"} /\ strategy.retries > 0) =>
    /\ 0 <= strategy.pending_retries
    /\ strategy.pending_retries <= strategy.retries
    /\ Cardinality({i \in DOMAIN history : history[i].ret # STOP})
         <= strategy.retries
    /\ \A i \in DOMAIN history :
         history[i].ret = STOP =>
           /\ history[i].after = history[i].before
           /\ \A j \in DOMAIN history : j > i => history[j].ret = STOP

\* After a reset, a FibonacciBackoff handed out its whole budget and then
\* answered STOP twice; a ConstantBackoff did the same before any reset.
C40_Witness ==
  /\ strategy.kind \in {"constant", "fibonacci"}
  /\ strategy.retries = MaxRetries
  /\ strategy.kind = "fibonacci" <=> resets = MaxResets
  /\ Len(history) = MaxRetries + 2
  /\ history[MaxRetries].ret # STOP
  /\ history[MaxRetries + 1].ret = STOP
  /\ history[MaxRetries + 2].ret = STOP

====
